---- MODULE Spec2Model ----
(***************************************************************************)
(* A model of the discovery server of lib/srv/discovery/discovery.go:      *)
(* the per-provider installer dispatch (handleEC2Instances,                *)
(* handleAzureInstances, handleGCPInstances and their loops), the usage-   *)
(* event cache, the CA-rotation watcher and the dynamic matcher updater.   *)
(***************************************************************************)
EXTENDS Integers, Sequences, FiniteSets, TLC

VARIABLES
    inventory,        \* the nodes the nodeWatcher holds (s.nodeWatcher.GetNodes)
    usageEventCache,  \* s.usageEventCache: the set of event keys already emitted
    submitCount,      \* per event key, the SubmitUsageEvent calls the access point received
    last,             \* what the handling that returned most recently did (installer
                      \* and access-point calls)
    nBatches,         \* number of batches the dispatch loops have taken from the watchers
    reinstalled,      \* the last two handlings, non-rotation batches of one scope, both
                      \* passed one same instance to the installer's Run
    ctxDone,          \* s.ctx is cancelled
    pc,               \* per provider, where its dispatch goroutine is
    cas,              \* per CA type, the rotation GetCertAuthority returns
    pcCA,             \* where the watchCARotation goroutine is
    tick,             \* what the most recent tick of watchCARotation found
    caRotationCh,     \* the nodes last sent on s.caRotationCh ({} before the first send)
    dynamicDatabaseFetchers,  \* s.dynamicDatabaseFetchers: config name -> fetchers
    mu,               \* s.mu: the goroutine that holds it ("none": unlocked)
    muDynamicFetchers,  \* s.muDynamicFetchers: the goroutine that holds its write lock
    emitCall,         \* per provider goroutine, its call of emitUsageEvents: where it
                      \* is, the events left to visit, the key in hand, the keys it
                      \* has submitted and whether a submission failed
    update,           \* where the updater is in a mutation of the fetcher table
    initialized,      \* per provider, what nodeWatcher.WaitInitialization returned in its
                      \* dispatch goroutine ("none": not called yet)
    page,             \* the page of the initial listing the updater is going through
    occurrence,       \* per config name, its most recent occurrence the updater processed:
                      \* its group, and in the listing whether its upsert failed
    lateHandling,     \* the providers whose loop took a batch after Stop had returned
    poll,             \* the PollInterval the configuration was given, c.PollInterval as it
                      \* is now, and the interval each provider watcher was created with
    allocated,        \* whether New made s.caRotationCh and s.reconciler
    pcDyn,            \* where the startDynamicWatcherUpdater goroutine is
    lastEvent,        \* the event the updater handled last, and how building went
    ctxErr,           \* s.ctx.Err(): "none" while the context is live
    watchers,         \* per provider, s.ec2Watcher / s.azureWatcher / s.gcpWatcher
    cfg,              \* the Config New is called with
    newState,         \* where the call of New is, and what it returned
    firstSignal,      \* the first signal New got from the configuration subscription
    subscription,     \* the subscription AccessPoint.NewWatcher opened
    dynamicMatcherWatcher,  \* s.dynamicMatcherWatcher is set
    launched,         \* per goroutine of the server, how many times it was started
    startResult,      \* what Start returned
    syncStarted,      \* the watchers Start started itself, in order
    stopCalled,       \* Stop was called
    waitResult,       \* where a call of Wait is, and what it returned
    instancesC,       \* per provider, the batches its watcher has sent on InstancesC
                      \* and the loop has not taken yet, oldest first
    sent,             \* per provider, how many batches its watcher has sent
    closed,           \* per provider, its watcher has closed InstancesC
    handling,         \* per provider, the batches a handler call is running on, each
                      \* with how far the handler has got
    handled,          \* per provider, the numbers of the batches whose handling
                      \* has returned, in the order of the returns
    splitCall,        \* the arguments of a call of splitMatchers
    splitResult,      \* what that call returned
    errKind,          \* the kind of the error a collaborator returns when it fails
    caRotationRead,   \* what the most recent call of getMostRecentRotationForCAs
                      \* returned
    logged            \* what the dispatch loop logged about the error of the most
                      \* recent handling ("none" when the handler returned nil)

dispatchVars == <<usageEventCache, submitCount, last, nBatches, reinstalled>>
caVars == <<cas, pcCA, tick, caRotationCh>>
dynVars == <<dynamicDatabaseFetchers, pcDyn, lastEvent>>
orderVars == <<instancesC, sent, handling, handled>>
splitVars == <<splitCall, splitResult>>
lockVars == <<mu, muDynamicFetchers, emitCall, update>>
scanVars == <<page, occurrence>>
lifeVars == <<cfg, newState, firstSignal, subscription, dynamicMatcherWatcher, launched,
              startResult, syncStarted, stopCalled, waitResult>>

vars == <<inventory, usageEventCache, submitCount, last, nBatches, reinstalled, ctxDone, pc,
          cas, pcCA, tick, caRotationCh, dynamicDatabaseFetchers, pcDyn, lastEvent,
          ctxErr, watchers, cfg, newState, firstSignal, subscription, dynamicMatcherWatcher,
          launched, startResult, syncStarted, stopCalled, waitResult, instancesC, sent,
          handling, handled, splitCall, splitResult,
          errKind, logged, caRotationRead, allocated, mu,
          muDynamicFetchers, emitCall, update, poll, lateHandling,
          initialized, page, occurrence, closed>>

-----------------------------------------------------------------------------
(* Bounds *)

\* batches taken from the watchers' channels in one behaviour
MaxBatches == 2
\* nodes in the inventory
MaxNodes == 2
\* instances in one batch
MaxBatchLen == 2
\* the latest instant of a rotation timestamp (0 is the zero time.Time)
MaxTime == 2
\* batches one watcher sends on its channel in one behaviour
MaxEmitted == 2
\* matchers in a list given to splitMatchers
MaxMatchers == 2
\* types of one such matcher
MaxTypes == 2

-----------------------------------------------------------------------------
(* Labels and nodes *)

\* a label (or instance field) that is not set
Absent == "<absent>"

Providers == {"ec2", "azure", "gcp"}

Accounts == {"a1", "a2"}
InstanceIDs == {"i1", "i2"}
Subscriptions == {"s1", "s2"}
VMIDs == {"v1", "v2"}
Projects == {"p1", "p2"}
Zones == {"z1", "z2"}
Names == {"n1", "n2"}

\* The labels of a node the filters read: types.AWSAccountIDLabel,
\* types.AWSInstanceIDLabel, types.SubscriptionIDLabel, types.VMIDLabel,
\* types.ProjectIDLabel, types.ZoneLabel, types.NameLabel.
LabelKeys == {"account", "instance", "subscription", "vmid", "project", "zone", "name"}

NoLabels == [k \in LabelKeys |-> Absent]

\* a node of the inventory: its labels, its sub-kind (GetSubKind) and the
\* LastRotated of its rotation (GetRotation)
Node(labels, subKind, lastRotated) ==
    [labels |-> labels, subKind |-> subKind, lastRotated |-> lastRotated]

\* a node the installer enrolled: a Teleport agent
AgentNode(labels) == Node(labels, "teleport", 0)

EC2Node(acct, id) ==
    AgentNode([NoLabels EXCEPT !["account"] = acct, !["instance"] = id])

AzureNode(sub, vm) ==
    AgentNode([NoLabels EXCEPT !["subscription"] = sub, !["vmid"] = vm])

GCPNode(proj, zone, name) ==
    AgentNode([NoLabels EXCEPT !["project"] = proj, !["zone"] = zone, !["name"] = name])

\* the nodes of one provider's discovery: they carry that provider's labels
ProviderNodes(p) ==
    CASE p = "ec2" -> {EC2Node(a, i) : a \in Accounts, i \in InstanceIDs}
                      \cup {AgentNode([NoLabels EXCEPT !["instance"] = "i1"])}  \* no account label
      [] p = "azure" -> {AzureNode(s, v) : s \in Subscriptions, v \in VMIDs}
      [] p = "gcp" -> {GCPNode(g, z, n) : g \in Projects, z \in Zones, n \in Names}

\* The inventories a behaviour starts from: at most MaxNodes nodes of the
\* discovery of provider p (a filter reads only its own provider's labels).
Inventories(p) == {inv \in SUBSET ProviderNodes(p) : Cardinality(inv) <= MaxNodes}

\* labels[key] with its ok flag
HasLabel(node, key) == node.labels[key] # Absent

\* types.MatchLabels: every wanted label is present on the node with that value
MatchLabels(node, want) ==
    \A k \in DOMAIN want : HasLabel(node, k) /\ node.labels[k] = want[k]

-----------------------------------------------------------------------------
(* Instances and batches *)

\* an instance of a batch: its identity and, for GCP, its own project and zone
\* (gcp.Instance.ProjectID, Zone, Name)
Inst(id) == [id |-> id, project |-> Absent, zone |-> Absent]
GCPInst(proj, zone, name) == [id |-> name, project |-> proj, zone |-> zone]

RECURSIVE SeqsNoDup(_, _)
\* the sequences of at most n distinct elements of S
SeqsNoDup(S, n) ==
    IF n = 0 THEN {<<>>}
    ELSE {<<>>} \cup UNION {{<<x>> \o s : s \in SeqsNoDup(S \ {x}, n - 1)} : x \in S}

Range(s) == {s[i] : i \in 1..Len(s)}

\* server.EC2Instances / AzureInstances / GCPInstances as the watcher emits them
EC2Batches ==
    {[prov |-> "ec2", scope |-> a, zone |-> Absent, rotation |-> r, instances |-> s] :
        a \in Accounts, r \in BOOLEAN,
        s \in SeqsNoDup({Inst(i) : i \in InstanceIDs}, MaxBatchLen)}

AzureBatches ==
    {[prov |-> "azure", scope |-> sb, zone |-> Absent, rotation |-> FALSE, instances |-> s] :
        sb \in Subscriptions,
        s \in SeqsNoDup({Inst(v) : v \in VMIDs}, MaxBatchLen)}

\* the VMs of a project: one in each zone, each with a name of its own
GCPVMs(proj) == {GCPInst(proj, "z1", "n1"), GCPInst(proj, "z2", "n2")}

\* A GCP batch has its own ProjectID and Zone, which go into the Run request,
\* and every instance carries a ProjectID and a Zone of its own, which are
\* what the filter reads. The watcher makes its batches per project; the zone
\* of an instance is the batch's or another.
GCPBatches ==
    UNION {{[prov |-> "gcp", scope |-> p, zone |-> z, rotation |-> FALSE, instances |-> s] :
                s \in SeqsNoDup(GCPVMs(p), MaxBatchLen)} :
            p \in Projects, z \in Zones}

Batches(p) ==
    CASE p = "ec2" -> EC2Batches
      [] p = "azure" -> AzureBatches
      [] p = "gcp" -> GCPBatches

-----------------------------------------------------------------------------
(* Inventory filtering *)

\* filterExistingEC2Nodes with the account label not compared
FilterExistingEC2Nodes_AnyAccount(instances, inv) ==
    LET nodes == {n \in inv : HasLabel(n, "account") /\ HasLabel(n, "instance")}
        Keep(inst) == ~ \E node \in nodes : MatchLabels(node, [instance |-> inst.id])
    IN  [instances EXCEPT !.instances = SelectSeq(@, Keep)]

\* filterExistingEC2Nodes: drops the instances some node matches on both the
\* batch's account ID and the instance's ID, keeping the order of the others
FilterExistingEC2Nodes(instances, inv) ==
    LET nodes == {n \in inv : HasLabel(n, "account") /\ HasLabel(n, "instance")}
        Keep(inst) == ~ \E node \in nodes :
                          MatchLabels(node, [account |-> instances.scope, instance |-> inst.id])
    IN  [instances EXCEPT !.instances = SelectSeq(@, Keep)]

\* filterExistingAzureNodes with the test inverted: the matched instances are kept
FilterExistingAzureNodes_KeepsMatched(instances, inv) ==
    LET nodes == {n \in inv : HasLabel(n, "subscription") /\ HasLabel(n, "vmid")}
        Keep(inst) == \E node \in nodes :
                          MatchLabels(node, [subscription |-> instances.scope, vmid |-> inst.id])
    IN  [instances EXCEPT !.instances = SelectSeq(@, Keep)]

\* filterExistingAzureNodes: the same on the subscription ID and the VM ID
FilterExistingAzureNodes(instances, inv) ==
    LET nodes == {n \in inv : HasLabel(n, "subscription") /\ HasLabel(n, "vmid")}
        Keep(inst) == ~ \E node \in nodes :
                          MatchLabels(node, [subscription |-> instances.scope, vmid |-> inst.id])
    IN  [instances EXCEPT !.instances = SelectSeq(@, Keep)]

\* filterExistingGCPNodes matching a node on the name label alone
FilterExistingGCPNodes_ByName(instances, inv) ==
    LET nodes == {n \in inv : HasLabel(n, "project") /\ HasLabel(n, "zone")
                                          /\ HasLabel(n, "name")}
        Keep(inst) == ~ \E node \in nodes : MatchLabels(node, [name |-> inst.id])
    IN  [instances EXCEPT !.instances = SelectSeq(@, Keep)]

\* filterExistingGCPNodes: drops the instances some node matches on the
\* instance's own project ID, its own zone and its name (the batch's ProjectID
\* and Zone are not read), keeping the order of the others
FilterExistingGCPNodes(instances, inv) ==
    LET nodes == {n \in inv : HasLabel(n, "project") /\ HasLabel(n, "zone")
                                          /\ HasLabel(n, "name")}
        Keep(inst) == ~ \E node \in nodes :
                          MatchLabels(node, [project |-> inst.project, zone |-> inst.zone,
                                             name |-> inst.id])
    IN  [instances EXCEPT !.instances = SelectSeq(@, Keep)]

-----------------------------------------------------------------------------
(* Usage events *)

\* the key of an instance's resource-create event: the provider's prefix and
\* the resource identity
EventKey(prov, inst) == <<prov, inst.id>>

EventKeys ==
    {<<"ec2", i>> : i \in InstanceIDs} \cup {<<"azure", v>> : v \in VMIDs}
    \cup {<<"gcp", n>> : n \in Names}

\* instances.MakeEvents(): one event per instance of the batch, by key
MakeEvents(instances) ==
    {EventKey(instances.prov, instances.instances[i]) : i \in 1..Len(instances.instances)}

NoKey == <<"none", "none">>

\* a provider goroutine outside emitUsageEvents
NoEmitCall == [pc |-> "idle", events |-> {}, key |-> NoKey, submitted |-> {}, err |-> FALSE]

-----------------------------------------------------------------------------
(* Handling one batch *)

\* What the collaborators do while a handler runs up to the installer: whether
\* the cloud client is obtained and whether instances.ServerInfos() succeeds
\* (EC2).
\* A collaborator that fails returns an error of one of ErrorKinds: a
\* trace.NotFound error, an awserr.Error with code ssm.ErrCodeInvalidInstanceId,
\* or any other error.
ErrorKinds == {"notFound", "invalidInstanceId", "other"}

EnvOK == [client |-> TRUE, infos |-> TRUE]

Envs(instances) ==
    {EnvOK, [EnvOK EXCEPT !.client = FALSE]}
    \cup (IF instances.prov = "ec2" THEN {[EnvOK EXCEPT !.infos = FALSE]} ELSE {})

\* a handler that returns before the installer is reached
Returned(result, queued) == [result |-> result, run |-> <<>>, queued |-> queued]

\* the request the handler builds and its call of the installer's Run, in
\* which the handler waits
CallRun(instances, queued) ==
    [result |-> "run",
     run |-> <<[prov |-> instances.prov, scope |-> instances.scope,
                targets |-> instances.instances]>>,
     queued |-> queued]

\* handleEC2Instances that filters rotation batches too
HandleEC2Instances_AlwaysFilters(instances, inv, env) ==
    IF ~env.client THEN Returned("clientErr", <<>>)
    ELSE IF ~env.infos THEN Returned("infosErr", <<>>)
    ELSE LET queued == instances.instances
             filtered == FilterExistingEC2Nodes(instances, inv)
         IN  IF Len(filtered.instances) = 0
             THEN Returned("notFound", queued)
             ELSE CallRun(filtered, queued)

\* handleEC2Instances queueing the server infos after the inventory filter
HandleEC2Instances_QueuesAfterFilter(instances, inv, env) ==
    IF ~env.client THEN Returned("clientErr", <<>>)
    ELSE IF ~env.infos THEN Returned("infosErr", <<>>)
    ELSE LET filtered == IF ~instances.rotation
                         THEN FilterExistingEC2Nodes(instances, inv)
                         ELSE instances
             queued == filtered.instances
         IN  IF Len(filtered.instances) = 0
             THEN Returned("notFound", queued)
             ELSE CallRun(filtered, queued)

\* handleEC2Instances, up to its call of the installer's Run
HandleEC2Instances(instances, inv, env) ==
    IF ~env.client THEN Returned("clientErr", <<>>)
    ELSE IF ~env.infos THEN Returned("infosErr", <<>>)
    ELSE LET queued == instances.instances
             filtered == IF ~instances.rotation
                         THEN FilterExistingEC2Nodes(instances, inv)
                         ELSE instances
         IN  IF Len(filtered.instances) = 0
             THEN Returned("notFound", queued)
             ELSE CallRun(filtered, queued)

\* handleAzureInstances without the inventory filter
HandleAzureInstances_NoFilter(instances, inv, env) ==
    IF ~env.client THEN Returned("clientErr", <<>>)
    ELSE IF Len(instances.instances) = 0
         THEN Returned("errNoInstances", <<>>)
         ELSE CallRun(instances, <<>>)

\* handleAzureInstances, up to its call of the installer's Run
HandleAzureInstances(instances, inv, env) ==
    IF ~env.client THEN Returned("clientErr", <<>>)
    ELSE LET filtered == FilterExistingAzureNodes(instances, inv)
         IN  IF Len(filtered.instances) = 0
             THEN Returned("errNoInstances", <<>>)
             ELSE CallRun(filtered, <<>>)

\* handleGCPInstances without the test for an empty batch
HandleGCPInstances_NoEmptyCheck(instances, inv, env) ==
    IF ~env.client THEN Returned("clientErr", <<>>)
    ELSE CallRun(FilterExistingGCPNodes(instances, inv), <<>>)

\* handleGCPInstances, up to its call of the installer's Run
HandleGCPInstances(instances, inv, env) ==
    IF ~env.client THEN Returned("clientErr", <<>>)
    ELSE LET filtered == FilterExistingGCPNodes(instances, inv)
         IN  IF Len(filtered.instances) = 0
             THEN Returned("errNoInstances", <<>>)
             ELSE CallRun(filtered, <<>>)

-----------------------------------------------------------------------------
(* The dispatch loops *)

NoBatch == [prov |-> "none", scope |-> Absent, zone |-> Absent, rotation |-> FALSE,
            instances |-> <<>>]

\* a batch the loop has taken, with how far its handler has got: result is
\* "none" until the handler has run up to the installer, "run" while it waits
\* in Run, "ok" from Run's success on, else the error the handler returns
NewHandling(n, instances) ==
    [n |-> n, instances |-> instances, result |-> "none", run |-> <<>>, queued |-> <<>>]

\* the record of one handling that has returned: the batch, and what was done
\* with it; call is the handler's call of emitUsageEvents, if it made one
Handled(h, call) ==
    [batch |-> h.instances, result |-> h.result, run |-> h.run,
     submitted |-> call.submitted, emitErr |-> call.err, queued |-> h.queued]

\* the instances a handling passed to the installer's Run
Targets(h) == IF Len(h.run) = 0 THEN {} ELSE Range(h.run[1].targets)

SameScope(b1, b2) == b1.prov = b2.prov /\ b1.scope = b2.scope /\ b1.zone = b2.zone

\* the error a handler returns: nil, the trace.NotFound of an empty EC2 batch,
\* the errNoInstances of an empty Azure or GCP batch, or the wrapped error of
\* the collaborator that failed, which keeps its kind
HandlerError(out, kind) ==
    CASE out.result = "ok" -> "nil"
      [] out.result = "notFound" -> "notFound"
      [] out.result = "errNoInstances" -> "errNoInstances"
      [] OTHER -> kind

\* the EC2 loop's "if err != nil { s.logHandleInstancesErr(err) }"
LogHandleInstancesErr(err) ==
    IF err = "nil" THEN "none"
    ELSE IF err = "invalidInstanceId" THEN "errorInvalidInstanceId"
    ELSE IF err = "notFound" THEN "debugAlreadyEnrolled"
    ELSE "errorFailedToEnroll"

\* the Azure and GCP loops' test of the handler's error against errNoInstances
LogNoInstancesOrError(err) ==
    IF err = "nil" THEN "none"
    ELSE IF err = "errNoInstances" THEN "debugAlreadyEnrolled"
    ELSE "errorFailedToEnroll"

\* what the loop of provider p logs about the handler's error
LogOf(p, err) ==
    IF p = "ec2" THEN LogHandleInstancesErr(err) ELSE LogNoInstancesOrError(err)

\* case instances := <-InstancesC of the loop of provider p, for a batch its
\* watcher sends: the loop takes the batch and calls the handler on it
ReceiveInstances(p, instances) ==
    /\ pc[p] = "select"
    /\ nBatches < MaxBatches
    /\ nBatches' = nBatches + 1
    /\ handling' = [handling EXCEPT
                       ![p] = @ \cup {NewHandling(nBatches + 1, instances)}]
    /\ lateHandling' = IF stopCalled THEN lateHandling \cup {p} ELSE lateHandling
    /\ pc' = [pc EXCEPT ![p] = "handle"]
    /\ UNCHANGED <<inventory, closed, scanVars, initialized, poll, lockVars, allocated, caRotationRead, errKind, logged, splitVars, instancesC, sent, handled, usageEventCache, submitCount, last,
                   reinstalled, ctxDone, ctxErr, watchers, lifeVars, caVars, dynVars>>

\* handleEC2Discovery, case instances := <-s.ec2Watcher.InstancesC
HandleEC2Discovery == \E instances \in EC2Batches : ReceiveInstances("ec2", instances)

\* handleAzureDiscovery, case instances := <-s.azureWatcher.InstancesC
HandleAzureDiscovery == \E instances \in AzureBatches : ReceiveInstances("azure", instances)

\* handleGCPDiscovery, case instances := <-s.gcpWatcher.InstancesC
HandleGCPDiscovery == \E instances \in GCPBatches : ReceiveInstances("gcp", instances)

-----------------------------------------------------------------------------
(* The watchers' channels and the order of handling *)

\* the batches the watchers send where the order of handling is followed: one
\* instance each, of the first account, subscription or project and zone; the
\* GCP instance is the one of that zone the inventory holds
OrderBatches(p) ==
    {b \in Batches(p) : /\ Len(b.instances) = 1
                        /\ ~b.rotation
                        /\ b.scope \in {"a1", "s1", "p1"}
                        /\ b.zone \in {Absent, "z1"}
                        /\ p = "gcp" => b.instances[1] = GCPInst("p1", "z1", "n1")}

\* s.handleEC2Instances / s.handleAzureInstances / s.handleGCPInstances, as the
\* loop of the provider calls it
HandleInstances(p, instances, inv, env) ==
    CASE p = "ec2" -> HandleEC2Instances(instances, inv, env)
      [] p = "azure" -> HandleAzureInstances(instances, inv, env)
      [] p = "gcp" -> HandleGCPInstances(instances, inv, env)

\* the provider's watcher, while it runs, sends its next batch on InstancesC;
\* stopped, it sends no more
Emit(p) ==
    /\ watchers[p] = "running"
    /\ ~closed[p]
    /\ sent[p] < MaxEmitted
    /\ \E b \in OrderBatches(p) :
          instancesC' = [instancesC EXCEPT
                            ![p] = Append(@, [n |-> sent[p] + 1, instances |-> b])]
    /\ sent' = [sent EXCEPT ![p] = @ + 1]
    /\ UNCHANGED <<inventory, closed, scanVars, initialized, lateHandling, poll, lockVars, allocated, caRotationRead, errKind, logged, splitVars, handling, handled, dispatchVars, ctxDone, ctxErr, watchers,
                   lifeVars, pc, caVars, dynVars>>

\* the provider's watcher, once stopped, ends and closes InstancesC; the
\* batches it had sent stay on the channel
CloseInstancesC(p) ==
    /\ watchers[p] = "stopped"
    /\ ~closed[p]
    /\ closed' = [closed EXCEPT ![p] = TRUE]
    /\ UNCHANGED <<inventory, scanVars, initialized, lateHandling, poll, lockVars, allocated, caRotationRead, errKind, logged, splitVars, orderVars, dispatchVars, ctxDone, ctxErr, watchers,
                   lifeVars, pc, caVars, dynVars>>

\* a goroutine of the server has panicked: the process has ended
Panicked == \E p \in Providers : pc[p] = "panicked"

\* the receive from the closed channel with the zero value handed to the
\* handler as an empty batch
ReceiveClosed_CallsHandler(p) ==
    /\ pc[p] = "select"
    /\ closed[p]
    /\ instancesC[p] = <<>>
    /\ handling' = [handling EXCEPT ![p] = @ \cup {NewHandling(0, NoBatch)}]
    /\ pc' = [pc EXCEPT ![p] = "handle"]
    /\ UNCHANGED <<inventory, closed, scanVars, initialized, lateHandling, poll, lockVars, allocated, caRotationRead, errKind, logged, splitVars, instancesC, sent, handled, dispatchVars, ctxDone, ctxErr, watchers,
                   lifeVars, caVars, dynVars>>

\* case instances := <-InstancesC of the provider's loop when the channel is
\* closed and holds no batch: the receive (it has no ok test) yields the zero
\* value, whose EC2 / Azure / GCP field is nil, and the loop reads AccountID /
\* SubscriptionID / ProjectID through it for its Debugf: the goroutine panics
\* before the handler is called
ReceiveClosed(p) ==
    /\ pc[p] = "select"
    /\ closed[p]
    /\ instancesC[p] = <<>>
    /\ pc' = [pc EXCEPT ![p] = "panicked"]
    /\ UNCHANGED <<inventory, closed, scanVars, initialized, lateHandling, poll, lockVars, allocated, caRotationRead, errKind, logged, splitVars, orderVars, dispatchVars, ctxDone, ctxErr, watchers,
                   lifeVars, caVars, dynVars>>

\* the receive with the handler started in a goroutine of its own
Receive_InGoroutine(p) ==
    /\ pc[p] = "select"
    /\ instancesC[p] # <<>>
    /\ instancesC' = [instancesC EXCEPT ![p] = Tail(@)]
    /\ handling' = [handling EXCEPT ![p] = @ \cup {NewHandling(Head(instancesC[p]).n,
                                                                Head(instancesC[p]).instances)}]
    /\ nBatches' = nBatches + 1
    /\ lateHandling' = IF stopCalled THEN lateHandling \cup {p} ELSE lateHandling
    /\ UNCHANGED <<inventory, closed, scanVars, initialized, poll, lockVars, allocated, caRotationRead, errKind, logged, splitVars, sent, handled, usageEventCache, submitCount, last,
                   reinstalled, ctxDone, ctxErr, watchers, lifeVars, pc, caVars, dynVars>>

\* case instances := <-InstancesC of the provider's loop: the loop takes the
\* oldest batch of the channel and calls the handler on it
Receive(p) ==
    /\ pc[p] = "select"
    /\ instancesC[p] # <<>>
    /\ instancesC' = [instancesC EXCEPT ![p] = Tail(@)]
    /\ handling' = [handling EXCEPT ![p] = @ \cup {NewHandling(Head(instancesC[p]).n,
                                                                Head(instancesC[p]).instances)}]
    /\ nBatches' = nBatches + 1
    /\ lateHandling' = IF stopCalled THEN lateHandling \cup {p} ELSE lateHandling
    /\ pc' = [pc EXCEPT ![p] = "handle"]
    /\ UNCHANGED <<inventory, closed, scanVars, initialized, poll, lockVars, allocated, caRotationRead, errKind, logged, splitVars, sent, handled, usageEventCache, submitCount, last,
                   reinstalled, ctxDone, ctxErr, watchers, lifeVars, caVars, dynVars>>

\* the handler of the batch the loop has taken runs up to the installer: it
\* obtains the client, queues the server infos (EC2), reads the inventory to
\* filter the batch and either returns or builds the request and calls Run
CallInstaller(p) ==
    /\ \E h \in handling[p] : \E env \in Envs(h.instances) :
          LET out == HandleInstances(p, h.instances, inventory, env)
          IN  /\ h.result = "none"
              /\ handling' = [handling EXCEPT
                                ![p] = (@ \ {h}) \cup {[h EXCEPT !.result = out.result,
                                                                 !.run = out.run,
                                                                 !.queued = out.queued]}]
    /\ UNCHANGED <<inventory, closed, scanVars, initialized, lateHandling, poll, allocated, caRotationRead, errKind, logged, splitVars, lockVars, instancesC, sent, handled, dispatchVars, ctxDone, ctxErr, watchers,
                   lifeVars, pc, caVars, dynVars>>

\* the installer's Run returning with the usage events emitted whatever it
\* returns
RunReturn_EmitsOnRunError(p) ==
    /\ emitCall[p].pc = "idle"
    /\ \E h \in handling[p] : \E ok \in BOOLEAN :
          /\ h.result = "run"
          /\ handling' = [handling EXCEPT
                            ![p] = (@ \ {h}) \cup {[h EXCEPT !.result = IF ok THEN "ok"
                                                                       ELSE "runErr"]}]
          /\ emitCall' = [emitCall EXCEPT
                            ![p] = [NoEmitCall EXCEPT
                                      !.pc = "lock",
                                      !.events = MakeEvents([h.instances EXCEPT
                                                    !.instances = h.run[1].targets])]]
    /\ UNCHANGED <<inventory, closed, scanVars, initialized, lateHandling, poll, allocated, caRotationRead, errKind, logged, splitVars, mu, muDynamicFetchers, update, instancesC, sent, handled, dispatchVars, ctxDone, ctxErr, watchers,
                   lifeVars, pc, caVars, dynVars>>

\* the installer's Run returns to the handler: with an error the handler
\* returns it; else the handler calls emitUsageEvents with the events of the
\* instances it passed to Run
RunReturn(p) ==
    /\ emitCall[p].pc = "idle"
    /\ \E h \in handling[p] : \E ok \in BOOLEAN :
          /\ h.result = "run"
          /\ handling' = [handling EXCEPT
                            ![p] = (@ \ {h}) \cup {[h EXCEPT !.result = IF ok THEN "ok"
                                                                       ELSE "runErr"]}]
          /\ emitCall' = IF ok
                         THEN [emitCall EXCEPT
                                 ![p] = [NoEmitCall EXCEPT
                                           !.pc = "lock",
                                           !.events = MakeEvents([h.instances EXCEPT
                                                         !.instances = h.run[1].targets])]]
                         ELSE emitCall
    /\ UNCHANGED <<inventory, closed, scanVars, initialized, lateHandling, poll, allocated, caRotationRead, errKind, logged, splitVars, mu, muDynamicFetchers, update, instancesC, sent, handled, dispatchVars, ctxDone, ctxErr, watchers,
                   lifeVars, pc, caVars, dynVars>>

\* the handler has returned or is about to: it returned before or from Run
\* with an error, or emitUsageEvents has returned to it
Returning(p, h) ==
    /\ h.result \notin {"none", "run"}
    /\ emitCall[p].pc \in {"idle", "done"}

\* the handler's return with its error ending the loop
HandlerReturn_ReturnsOnError(p) ==
    /\ \E h \in handling[p] :
          /\ Returning(p, h)
          /\ pc' = [pc EXCEPT ![p] = IF h.result = "ok" THEN "select" ELSE "returned"]
          /\ last' = Handled(h, emitCall[p])
          /\ reinstalled' = (/\ SameScope(last.batch, h.instances)
                             /\ ~last.batch.rotation /\ ~h.instances.rotation
                             /\ Targets(last) \cap Targets(Handled(h, emitCall[p])) # {})
          /\ logged' = LogOf(p, HandlerError(Handled(h, emitCall[p]), errKind))
          /\ emitCall' = [emitCall EXCEPT ![p] = NoEmitCall]
          /\ handling' = [handling EXCEPT ![p] = @ \ {h}]
          /\ handled' = [handled EXCEPT ![p] = Append(@, h.n)]
    /\ UNCHANGED <<inventory, closed, scanVars, initialized, lateHandling, poll, allocated, caRotationRead, errKind, splitVars, mu, muDynamicFetchers, update, instancesC, sent, usageEventCache, submitCount, nBatches, ctxDone, ctxErr, watchers,
                   lifeVars, caVars, dynVars>>

\* the handler returns to its loop, which logs the handler's error, if any,
\* and goes back to its select; an error of emitUsageEvents is not returned
HandlerReturn(p) ==
    /\ \E h \in handling[p] :
          /\ Returning(p, h)
          /\ last' = Handled(h, emitCall[p])
          /\ reinstalled' = (/\ SameScope(last.batch, h.instances)
                             /\ ~last.batch.rotation /\ ~h.instances.rotation
                             /\ Targets(last) \cap Targets(Handled(h, emitCall[p])) # {})
          /\ logged' = LogOf(p, HandlerError(Handled(h, emitCall[p]), errKind))
          /\ emitCall' = [emitCall EXCEPT ![p] = NoEmitCall]
          /\ handling' = [handling EXCEPT ![p] = @ \ {h}]
          /\ handled' = [handled EXCEPT ![p] = Append(@, h.n)]
    /\ pc' = [pc EXCEPT ![p] = "select"]
    /\ UNCHANGED <<inventory, closed, scanVars, initialized, lateHandling, poll, allocated, caRotationRead, errKind, splitVars, mu, muDynamicFetchers, update, instancesC, sent, usageEventCache, submitCount, nBatches, ctxDone, ctxErr, watchers,
                   lifeVars, caVars, dynVars>>

-----------------------------------------------------------------------------
(* The CA-rotation watcher *)

\* types.OpenSSHCA and types.HostCA, in the order findUnrotatedEC2Nodes
\* passes them
CAOrder == <<"openssh", "host">>
CATypes == {CAOrder[i] : i \in 1..Len(CAOrder)}

Times == 0..MaxTime

\* types.Rotation of a CA: State, Started, LastRotated
Rotations == [state : {"standby", "in_progress"}, started : Times, lastRotated : Times]

\* t.After(u)
After(t, u) == t > u

\* the GetCertAuthority call that fails, if one does
NoCAFailure == "none"
CAFailures == {NoCAFailure} \cup CATypes

RECURSIVE MostRecentFrom(_, _, _, _)
\* the loop of getMostRecentRotationForCAs from the i-th CA type on
MostRecentFrom(i, mostRecentUpdate, c, failing) ==
    IF i > Len(CAOrder) THEN [err |-> FALSE, time |-> mostRecentUpdate]
    ELSE IF CAOrder[i] = failing THEN [err |-> TRUE, time |-> 0]
    ELSE LET caRot == c[CAOrder[i]]
             started == IF caRot.state = "in_progress"
                           /\ After(caRot.started, mostRecentUpdate)
                        THEN caRot.started ELSE mostRecentUpdate
             rotated == IF After(caRot.lastRotated, started)
                        THEN caRot.lastRotated ELSE started
         IN MostRecentFrom(i + 1, rotated, c, failing)

\* getMostRecentRotationForCAs reading the OpenSSH CA only
GetMostRecentRotationForCAs_OpenSSHOnly(c, failing) ==
    IF failing # NoCAFailure THEN [err |-> TRUE, time |-> 0]
    ELSE LET caRot == c["openssh"]
             started == IF caRot.state = "in_progress" THEN caRot.started ELSE 0
         IN [err |-> FALSE,
             time |-> IF After(caRot.lastRotated, started) THEN caRot.lastRotated
                      ELSE started]

\* getMostRecentRotationForCAs counting Started whatever the rotation state
GetMostRecentRotationForCAs_AnyState(c, failing) ==
    MostRecentFrom(1, 0, [t \in CATypes |-> [c[t] EXCEPT !.state = "in_progress"]], failing)

GetMostRecentRotationForCAs(c, failing) == MostRecentFrom(1, 0, c, failing)

\* findUnrotatedEC2Nodes: the OpenSSH nodes with both AWS labels that the most
\* recent CA rotation is after
FindUnrotatedEC2Nodes(inv, c, failing) ==
    LET mostRecentCertRotation == GetMostRecentRotationForCAs(c, failing)
        found == {n \in inv : /\ n.subKind = "openssh"
                              /\ HasLabel(n, "account")
                              /\ HasLabel(n, "instance")
                              /\ After(mostRecentCertRotation.time, n.lastRotated)}
    IN IF mostRecentCertRotation.err THEN [result |-> "caErr", nodes |-> {}]
       ELSE IF found = {} THEN [result |-> "notFound", nodes |-> {}]
       ELSE [result |-> "found", nodes |-> found]

NoTick == [result |-> "none", nodes |-> {}]

\* the tick going on to the send when the lookup found no node
WatchCARotationTick_SendsEmpty ==
    /\ pcCA = "ticker"
    /\ \E failing \in CAFailures :
          /\ tick' = FindUnrotatedEC2Nodes(inventory, cas, failing)
          /\ caRotationRead' =
                 [called |-> TRUE,
                  err |-> GetMostRecentRotationForCAs(cas, failing).err,
                  time |-> GetMostRecentRotationForCAs(cas, failing).time]
          /\ pcCA' = IF tick'.result \in {"found", "notFound"} THEN "send" ELSE "ticker"
    /\ UNCHANGED <<inventory, closed, scanVars, initialized, lateHandling, poll, lockVars, allocated, errKind, logged, splitVars, orderVars, dispatchVars, ctxDone, ctxErr, watchers, lifeVars, pc, cas, caRotationCh, dynVars>>

\* case <-ticker.C of watchCARotation, up to the send: on an error the loop
\* continues, otherwise it goes on to send what it found
WatchCARotationTick ==
    /\ pcCA = "ticker"
    /\ \E failing \in CAFailures :
          /\ tick' = FindUnrotatedEC2Nodes(inventory, cas, failing)
          /\ caRotationRead' =
                 [called |-> TRUE,
                  err |-> GetMostRecentRotationForCAs(cas, failing).err,
                  time |-> GetMostRecentRotationForCAs(cas, failing).time]
          /\ pcCA' = IF tick'.result = "found" THEN "send" ELSE "ticker"
    /\ UNCHANGED <<inventory, closed, scanVars, initialized, lateHandling, poll, lockVars, allocated, errKind, logged, splitVars, orderVars, dispatchVars, ctxDone, ctxErr, watchers, lifeVars, pc, cas, caRotationCh, dynVars>>

\* s.caRotationCh <- nodes, taken by the EC2 watcher while it runs: the
\* channel is unbuffered and the send has no other case
SendRotation ==
    /\ pcCA = "send"
    /\ watchers["ec2"] = "running"
    /\ caRotationCh' = tick.nodes
    /\ pcCA' = "ticker"
    /\ UNCHANGED <<inventory, closed, scanVars, initialized, lateHandling, poll, lockVars, allocated, caRotationRead, errKind, logged, splitVars, orderVars, dispatchVars, ctxDone, ctxErr, watchers, lifeVars, pc, cas, tick, dynVars>>

\* case <-s.ctx.Done() of watchCARotation
WatchCARotationReturn ==
    /\ pcCA = "ticker"
    /\ ctxDone
    /\ pcCA' = "returned"
    /\ UNCHANGED <<inventory, closed, scanVars, initialized, lateHandling, poll, lockVars, allocated, caRotationRead, errKind, logged, splitVars, orderVars, dispatchVars, ctxDone, ctxErr, watchers, lifeVars, pc, cas, tick, caRotationCh, dynVars>>

\* OpenSSH nodes with both AWS labels and any rotation time, and one node for
\* each way of not being one
RotationNodes ==
    {Node([NoLabels EXCEPT !["account"] = "a1", !["instance"] = "i1"], "openssh", t) :
        t \in Times}
    \cup {Node([NoLabels EXCEPT !["account"] = "a1", !["instance"] = "i2"], "teleport", 0),
          Node([NoLabels EXCEPT !["instance"] = "i2"], "openssh", 0),
          Node([NoLabels EXCEPT !["account"] = "a2"], "openssh", 0)}

\* inventories of at most two of these nodes
RotationInventories == {{}} \cup {{n, m} : n \in RotationNodes, m \in RotationNodes}

\* a cluster whose CAs were never rotated
StandbyCAs == [t \in CATypes |-> [state |-> "standby", started |-> 0, lastRotated |-> 0]]

-----------------------------------------------------------------------------
(* The dynamic matcher updater *)

\* s.DiscoveryGroup
ServiceGroup == "g1"
DiscoveryGroups == {"g1", "g2"}
ConfigNames == {"dc1", "dc2"}

\* the matcher types db.IsAWSMatcherType and db.IsAzureMatcherType accept
AWSDatabaseTypes == {"rds", "redshift"}
AzureDatabaseTypes == {"mysql"}

\* a matcher: its types and, standing for its other fields, its region
Matcher(types, region) == [types |-> types, region |-> region]

AWSMatcherLists ==
    {<<>>,
     <<Matcher(<<"ec2">>, "r1")>>,
     <<Matcher(<<"rds">>, "r1")>>,
     <<Matcher(<<"redshift", "ec2", "rds">>, "r1")>>,
     <<Matcher(<<"ec2", "rds">>, "r1"), Matcher(<<"rds">>, "r2")>>}

AzureMatcherLists ==
    {<<>>, <<Matcher(<<"vm">>, "r1")>>, <<Matcher(<<"vm", "mysql">>, "r1")>>}

\* a discoveryconfig.DiscoveryConfig
DiscoveryConfig(name, group, aws, azure) ==
    [kind |-> "discovery_config", name |-> name, group |-> group, aws |-> aws,
     azure |-> azure]

DiscoveryConfigs ==
    {DiscoveryConfig(n, g, aws, azure) :
        n \in ConfigNames, g \in DiscoveryGroups, aws \in AWSMatcherLists,
        azure \in AzureMatcherLists}

\* a resource header, as a delete event carries it, and a resource of
\* another kind
ResourceHeader(kind, name) ==
    [kind |-> kind, name |-> name, group |-> Absent, aws |-> <<>>, azure |-> <<>>]

\* splitSlice, with the check given by the set of strings it accepts
SplitSlice(ss, accepted) ==
    [split |-> SelectSeq(ss, LAMBDA e : e \in accepted),
     other |-> SelectSeq(ss, LAMBDA e : e \notin accepted)]

\* matcher.CopyWithTypes
CopyWithTypes(matcher, types) == [matcher EXCEPT !.types = types]

RECURSIVE SplitMatchers_KeepsEmpty(_, _)
\* splitMatchers appending both copies of every matcher
SplitMatchers_KeepsEmpty(matchers, accepted) ==
    IF matchers = <<>> THEN [split |-> <<>>, other |-> <<>>]
    ELSE LET matcher == Head(matchers)
             types == SplitSlice(matcher.types, accepted)
             rest == SplitMatchers_KeepsEmpty(Tail(matchers), accepted)
         IN [split |-> <<CopyWithTypes(matcher, types.split)>> \o rest.split,
             other |-> <<CopyWithTypes(matcher, types.other)>> \o rest.other]

RECURSIVE SplitMatchers_Prepends(_, _)
\* splitMatchers putting each copy in front of the copies made before it
SplitMatchers_Prepends(matchers, accepted) ==
    IF matchers = <<>> THEN [split |-> <<>>, other |-> <<>>]
    ELSE LET matcher == Head(matchers)
             types == SplitSlice(matcher.types, accepted)
             rest == SplitMatchers_Prepends(Tail(matchers), accepted)
         IN [split |-> rest.split
                       \o (IF Len(types.split) > 0
                           THEN <<CopyWithTypes(matcher, types.split)>> ELSE <<>>),
             other |-> rest.other
                       \o (IF Len(types.other) > 0
                           THEN <<CopyWithTypes(matcher, types.other)>> ELSE <<>>)]

RECURSIVE SplitMatchers(_, _)
\* splitMatchers
SplitMatchers(matchers, accepted) ==
    IF matchers = <<>> THEN [split |-> <<>>, other |-> <<>>]
    ELSE LET matcher == Head(matchers)
             types == SplitSlice(matcher.types, accepted)
             rest == SplitMatchers(Tail(matchers), accepted)
         IN [split |-> (IF Len(types.split) > 0
                        THEN <<CopyWithTypes(matcher, types.split)>> ELSE <<>>)
                       \o rest.split,
             other |-> (IF Len(types.other) > 0
                        THEN <<CopyWithTypes(matcher, types.other)>> ELSE <<>>)
                       \o rest.other]

\* the matcher types and the regions of the matcher lists splitMatchers is
\* applied to; the matcher at position i has region i of SplitRegions
SplitTypes == {"rds", "ec2"}
SplitRegions == <<"r1", "r2", "r3", "r4">>

\* the sequences of at most n matcher types, repetitions included
TypeSeqs(n) == UNION {[1..k -> SplitTypes] : k \in 0..n}

\* the matcher lists: at most MaxMatchers matchers of at most MaxTypes types
SplitMatcherLists ==
    UNION {{[i \in 1..k |-> Matcher(ts[i], SplitRegions[i])] :
                ts \in [1..k -> TypeSeqs(MaxTypes)]} : k \in 0..MaxMatchers}

\* a call of splitMatchers: the list and the types matcherTypeCheck accepts
SplitCalls == [matchers : SplitMatcherLists, accepted : SUBSET SplitTypes]

NoSplitCall == [matchers |-> <<>>, accepted |-> {}]
NoSplitResult == [returned |-> FALSE, split |-> <<>>, other |-> <<>>]

\* splitMatchers(matchers, matcherTypeCheck) is called and returns
CallSplitMatchers ==
    /\ ~splitResult.returned
    /\ LET r == SplitMatchers(splitCall.matchers, splitCall.accepted)
       IN  splitResult' = [returned |-> TRUE, split |-> r.split, other |-> r.other]
    /\ UNCHANGED <<inventory, closed, scanVars, initialized, lateHandling, poll, lockVars, allocated, caRotationRead, errKind, logged, splitCall, orderVars, dispatchVars, ctxDone, ctxErr, watchers,
                   lifeVars, pc, caVars, dynVars>>

RECURSIVE MakeFetchers(_, _)
\* db.MakeAWSFetchers / db.MakeAzureFetchers: one fetcher for each type of
\* each matcher, in order
MakeFetchers(cloud, matchers) ==
    IF matchers = <<>> THEN <<>>
    ELSE LET matcher == Head(matchers)
         IN [i \in 1..Len(matcher.types) |->
                [cloud |-> cloud, type |-> matcher.types[i], region |-> matcher.region]]
            \o MakeFetchers(cloud, Tail(matchers))

\* the fetcher constructor that fails, if one does
NoBuildFailure == "none"
BuildFailures == {NoBuildFailure, "aws", "azure"}

\* databaseFetchersFromMatchers
DatabaseFetchersFromMatchers(aws, azure, failing) ==
    LET awsDatabaseMatchers == SplitMatchers(aws, AWSDatabaseTypes).split
        azureDatabaseMatchers == SplitMatchers(azure, AzureDatabaseTypes).split
        awsFetchers == IF Len(awsDatabaseMatchers) > 0
                       THEN MakeFetchers("aws", awsDatabaseMatchers) ELSE <<>>
        azureFetchers == IF Len(azureDatabaseMatchers) > 0
                         THEN MakeFetchers("azure", azureDatabaseMatchers) ELSE <<>>
    IN IF Len(awsDatabaseMatchers) > 0 /\ failing = "aws"
       THEN [err |-> TRUE, fetchers |-> <<>>]
       ELSE IF Len(azureDatabaseMatchers) > 0 /\ failing = "azure"
       THEN [err |-> TRUE, fetchers |-> <<>>]
       ELSE [err |-> FALSE, fetchers |-> awsFetchers \o azureFetchers]

\* an entry of the fetcher table, and the lookup of a name it does not hold
Entry(fetchers) == [present |-> TRUE, fetchers |-> fetchers]
NoEntry == [present |-> FALSE, fetchers |-> <<>>]

\* a delete that empties the whole table
DeleteDynamicFetchers_ClearsAll(table, name) == [n \in DOMAIN table |-> NoEntry]

\* delete(s.dynamicDatabaseFetchers, name)
DeleteDynamicFetchers(table, name) == [table EXCEPT ![name] = NoEntry]

\* upsertDynamicMatchers leaving an entry that exists as it is
UpsertDynamicMatchers_KeepsExisting(table, dc, failing) ==
    LET built == DatabaseFetchersFromMatchers(dc.aws, dc.azure, failing)
    IN IF built.err THEN [err |-> TRUE, table |-> table]
       ELSE IF table[dc.name].present THEN [err |-> FALSE, table |-> table]
       ELSE [err |-> FALSE, table |-> [table EXCEPT ![dc.name] = Entry(built.fetchers)]]

\* upsertDynamicMatchers dropping the entry when the fetchers cannot be built
UpsertDynamicMatchers_DropsOnError(table, dc, failing) ==
    LET built == DatabaseFetchersFromMatchers(dc.aws, dc.azure, failing)
    IN IF built.err THEN [err |-> TRUE, table |-> [table EXCEPT ![dc.name] = NoEntry]]
       ELSE [err |-> FALSE, table |-> [table EXCEPT ![dc.name] = Entry(built.fetchers)]]

\* upsertDynamicMatchers
UpsertDynamicMatchers(table, dc, failing) ==
    LET built == DatabaseFetchersFromMatchers(dc.aws, dc.azure, failing)
    IN IF built.err THEN [err |-> TRUE, table |-> table]
       ELSE [err |-> FALSE, table |-> [table EXCEPT ![dc.name] = Entry(built.fetchers)]]

\* the body of 'for _, dc := range dcs' taking the configs of every group
UpsertExisting_AnyGroup(table, dc, failing) ==
    UpsertDynamicMatchers(table, dc, failing).table

\* the body of 'for _, dc := range dcs' of the initial listing: a config of
\* another group is skipped, and the error of upsertDynamicMatchers is logged
UpsertExisting(table, dc, failing) ==
    IF dc.group # ServiceGroup THEN table
    ELSE UpsertDynamicMatchers(table, dc, failing).table

\* the pages ListDiscoveryConfigs returns: empty, one config, or two
\* configs of different names
ConfigPages ==
    {<<>>} \cup {<<dc>> : dc \in DiscoveryConfigs}
    \cup {<<DiscoveryConfig("dc1", g, <<Matcher(<<"rds">>, "r1")>>, <<>>),
            DiscoveryConfig("dc2", ServiceGroup, <<>>, <<Matcher(<<"vm", "mysql">>, "r1")>>)>> :
             g \in DiscoveryGroups}

\* the events the subscription delivers
Events ==
    {[type |-> "put", resource |-> dc] : dc \in DiscoveryConfigs}
    \cup {[type |-> "put", resource |-> ResourceHeader("node", n)] : n \in ConfigNames}
    \cup {[type |-> ty, resource |-> ResourceHeader("discovery_config", n)] :
             ty \in {"delete", "init"}, n \in ConfigNames}

NoEvent == [type |-> "none", resource |-> ResourceHeader("none", "none"),
            failing |-> NoBuildFailure]

\* the event loop returning on an event of unknown type
HandleEvent_ReturnsOnUnknown ==
    /\ pcDyn = "events"
    /\ \E event \in Events : \E failing \in BuildFailures :
          /\ lastEvent' = [type |-> event.type, resource |-> event.resource,
                           failing |-> failing]
          /\ CASE event.type = "put" ->
                    IF event.resource.kind # "discovery_config"
                    THEN pcDyn' = "returned" /\ UNCHANGED dynamicDatabaseFetchers
                    ELSE IF event.resource.group # ServiceGroup
                    THEN /\ dynamicDatabaseFetchers' =
                               DeleteDynamicFetchers(dynamicDatabaseFetchers,
                                                     event.resource.name)
                         /\ UNCHANGED pcDyn
                    ELSE /\ dynamicDatabaseFetchers' =
                               UpsertDynamicMatchers(dynamicDatabaseFetchers,
                                                     event.resource, failing).table
                         /\ UNCHANGED pcDyn
               [] event.type = "delete" ->
                    /\ dynamicDatabaseFetchers' =
                          DeleteDynamicFetchers(dynamicDatabaseFetchers,
                                                event.resource.name)
                    /\ UNCHANGED pcDyn
               [] OTHER -> pcDyn' = "returned" /\ UNCHANGED dynamicDatabaseFetchers
    /\ UNCHANGED <<inventory, closed, scanVars, initialized, lateHandling, poll, lockVars, allocated, caRotationRead, errKind, logged, splitVars, orderVars, dispatchVars, ctxDone, ctxErr, watchers, lifeVars, pc, caVars>>

\* case event := <-s.dynamicMatcherWatcher.Events() of the event loop
HandleEvent ==
    /\ pcDyn = "events"
    /\ \E event \in Events : \E failing \in BuildFailures :
          /\ lastEvent' = [type |-> event.type, resource |-> event.resource,
                           failing |-> failing]
          /\ CASE event.type = "put" ->
                    IF event.resource.kind # "discovery_config"
                    THEN pcDyn' = "returned" /\ UNCHANGED dynamicDatabaseFetchers
                    ELSE IF event.resource.group # ServiceGroup
                    THEN /\ dynamicDatabaseFetchers' =
                               DeleteDynamicFetchers(dynamicDatabaseFetchers,
                                                     event.resource.name)
                         /\ UNCHANGED pcDyn
                    ELSE /\ dynamicDatabaseFetchers' =
                               UpsertDynamicMatchers(dynamicDatabaseFetchers,
                                                     event.resource, failing).table
                         /\ UNCHANGED pcDyn
               [] event.type = "delete" ->
                    /\ dynamicDatabaseFetchers' =
                          DeleteDynamicFetchers(dynamicDatabaseFetchers,
                                                event.resource.name)
                    /\ UNCHANGED pcDyn
               [] OTHER -> UNCHANGED <<dynamicDatabaseFetchers, pcDyn>>
    /\ UNCHANGED <<inventory, closed, scanVars, initialized, lateHandling, poll, lockVars, allocated, caRotationRead, errKind, logged, splitVars, orderVars, dispatchVars, ctxDone, ctxErr, watchers, lifeVars, pc, caVars>>

\* the subscription ends by itself with its terminal error: its done channel
\* fires
SubscriptionFails ==
    /\ subscription = "open"
    /\ subscription' = "failed"
    /\ UNCHANGED <<inventory, closed, scanVars, initialized, lateHandling, poll, lockVars, allocated, caRotationRead, errKind, logged, splitVars, orderVars,
                   dispatchVars, ctxDone, ctxErr, watchers, pc, caVars, dynVars, cfg,
                   newState, firstSignal, dynamicMatcherWatcher, launched, startResult,
                   syncStarted, stopCalled, waitResult>>

\* the subscription's done channel has fired: it failed or it was closed
DoneFired == subscription \in {"failed", "closed"}

\* the Done case with the loop going on
WatcherDone_KeepsLooping ==
    /\ pcDyn = "events"
    /\ DoneFired
    /\ UNCHANGED vars

\* case <-s.dynamicMatcherWatcher.Done() of the event loop
WatcherDone ==
    /\ pcDyn = "events"
    /\ DoneFired
    /\ pcDyn' = "returned"
    /\ UNCHANGED <<inventory, closed, scanVars, initialized, lateHandling, poll, lockVars, allocated, caRotationRead, errKind, logged, splitVars, orderVars, dispatchVars, ctxDone, ctxErr, watchers, lifeVars, pc, caVars, dynamicDatabaseFetchers,
                   lastEvent>>

-----------------------------------------------------------------------------
(* The listing of the updater, and its event loop with what it processed *)

\* no page is being gone through
NoPage == [dcs |-> <<>>, listed |-> "none"]

\* the pages ListDiscoveryConfigs can return next: the listing is paginated
\* by name, so a page holds no name an earlier page held
ScanPages(seen) ==
    {dcs \in ConfigPages : \A i \in DOMAIN dcs : seen[dcs[i].name] = "none"}

\* what the updater saw of a config it processed: its group is the
\* service's, or another one
Seen(dc) == IF dc.group = ServiceGroup THEN "group" ELSE "otherGroup"

\* what the listing saw of a config: as Seen, and for a config of the
\* service's group whether upsertDynamicMatchers returned an error
Listed(dc, failing) ==
    IF /\ dc.group = ServiceGroup
       /\ UpsertDynamicMatchers([n \in ConfigNames |-> NoEntry], dc, failing).err
    THEN "groupErr" ELSE Seen(dc)

\* the occurrences of a config whose group is the service's
ServiceGroupOccurrences == {"group", "groupErr"}

\* the call of ListDiscoveryConfigs: an error ends the goroutine
ListPage ==
    /\ pcDyn = "list"
    /\ page = NoPage
    /\ \E listed \in {"err", "more", "last"} :
          IF listed = "err"
          THEN pcDyn' = "returned" /\ UNCHANGED page
          ELSE /\ \E dcs \in ScanPages(occurrence) : page' = [dcs |-> dcs, listed |-> listed]
               /\ UNCHANGED pcDyn
    /\ UNCHANGED <<inventory, closed, occurrence, initialized, lateHandling, poll, lockVars, allocated,
                   caRotationRead, errKind, logged, splitVars, orderVars,
                   dispatchVars, ctxDone, ctxErr, watchers, lifeVars, pc, caVars,
                   dynamicDatabaseFetchers, lastEvent>>

\* one turn of 'for _, dc := range dcs', and after the last config the test of
\* respNextKey
UpsertListed ==
    /\ pcDyn = "list"
    /\ page # NoPage
    /\ IF page.dcs = <<>>
       THEN /\ page' = NoPage
            /\ pcDyn' = IF page.listed = "last" THEN "events" ELSE "list"
            /\ UNCHANGED <<dynamicDatabaseFetchers, occurrence>>
       ELSE /\ \E failing \in BuildFailures :
                  /\ dynamicDatabaseFetchers' =
                         UpsertExisting(dynamicDatabaseFetchers, Head(page.dcs), failing)
                  /\ occurrence' = [occurrence EXCEPT ![Head(page.dcs).name] =
                                                          Listed(Head(page.dcs), failing)]
            /\ page' = [page EXCEPT !.dcs = Tail(@)]
            /\ UNCHANGED pcDyn
    /\ UNCHANGED <<inventory, closed, initialized, lateHandling, poll, lockVars, allocated,
                   caRotationRead, errKind, logged, splitVars, orderVars,
                   dispatchVars, ctxDone, ctxErr, watchers, lifeVars, pc, caVars, lastEvent>>

\* the event loop going on after an upsert whose resource is not a
\* DiscoveryConfig
ApplyEvent_SkipsUnexpectedResource(table, ev) ==
    CASE ev.type = "put" ->
            IF ev.resource.kind # "discovery_config"
            THEN [table |-> table, pc |-> "events"]
            ELSE IF ev.resource.group # ServiceGroup
            THEN [table |-> DeleteDynamicFetchers(table, ev.resource.name),
                  pc |-> "events"]
            ELSE [table |-> UpsertDynamicMatchers(table, ev.resource, ev.failing).table,
                  pc |-> "events"]
      [] ev.type = "delete" ->
            [table |-> DeleteDynamicFetchers(table, ev.resource.name), pc |-> "events"]
      [] OTHER -> [table |-> table, pc |-> "events"]

\* the event loop leaving the entry of a config whose group is another one
ApplyEvent_KeepsOtherGroup(table, ev) ==
    CASE ev.type = "put" ->
            IF ev.resource.kind # "discovery_config"
            THEN [table |-> table, pc |-> "returned"]
            ELSE IF ev.resource.group # ServiceGroup
            THEN [table |-> table, pc |-> "events"]
            ELSE [table |-> UpsertDynamicMatchers(table, ev.resource, ev.failing).table,
                  pc |-> "events"]
      [] ev.type = "delete" ->
            [table |-> DeleteDynamicFetchers(table, ev.resource.name), pc |-> "events"]
      [] OTHER -> [table |-> table, pc |-> "events"]

\* what the event loop does with an event: the table it leaves and whether
\* the loop goes on
ApplyEvent(table, ev) ==
    CASE ev.type = "put" ->
            IF ev.resource.kind # "discovery_config"
            THEN [table |-> table, pc |-> "returned"]
            ELSE IF ev.resource.group # ServiceGroup
            THEN [table |-> DeleteDynamicFetchers(table, ev.resource.name),
                  pc |-> "events"]
            ELSE [table |-> UpsertDynamicMatchers(table, ev.resource, ev.failing).table,
                  pc |-> "events"]
      [] ev.type = "delete" ->
            [table |-> DeleteDynamicFetchers(table, ev.resource.name), pc |-> "events"]
      [] OTHER -> [table |-> table, pc |-> "events"]

\* the occurrences processed once the event loop has processed ev
Occurred(seen, ev) ==
    IF ev.type = "put" /\ ev.resource.kind = "discovery_config"
    THEN [seen EXCEPT ![ev.resource.name] = Seen(ev.resource)]
    ELSE IF ev.type = "delete" /\ ev.resource.name \in DOMAIN seen
    THEN [seen EXCEPT ![ev.resource.name] = "deleted"]
    ELSE seen

\* case event := <-s.dynamicMatcherWatcher.Events(), with what it processed
\* recorded
ProcessEvent ==
    /\ pcDyn = "events"
    /\ \E event \in Events : \E failing \in BuildFailures :
          LET ev == [type |-> event.type, resource |-> event.resource,
                     failing |-> failing]
              out == ApplyEvent(dynamicDatabaseFetchers, ev)
          IN /\ lastEvent' = ev
             /\ dynamicDatabaseFetchers' = out.table
             /\ pcDyn' = out.pc
             /\ occurrence' = Occurred(occurrence, ev)
    /\ UNCHANGED <<inventory, closed, page, initialized, lateHandling, poll, lockVars, allocated,
                   caRotationRead, errKind, logged, splitVars, orderVars,
                   dispatchVars, ctxDone, ctxErr, watchers, lifeVars, pc, caVars>>

-----------------------------------------------------------------------------
(* New, Start, Stop and Wait *)

GCPMatcherLists == {<<>>, <<Matcher(<<"gce">>, "r1")>>}
KubeMatcherLists == {<<>>, <<Matcher(<<"app">>, "r1")>>}

\* a Config: its DiscoveryGroup, its Matchers, and whether its Emitter and
\* AccessPoint are set
Config(group, aws, azure, gcp, kube, emitter, accessPoint) ==
    [group |-> group, aws |-> aws, azure |-> azure, gcp |-> gcp, kube |-> kube,
     emitter |-> emitter, accessPoint |-> accessPoint]

\* the configurations New is called with: every combination of a group and
\* of matchers with the dependencies set, and the ways of leaving one out
Configs ==
    {Config(g, aws, azure, gcp, kube, TRUE, TRUE) :
        g \in {"", ServiceGroup},
        aws \in {<<>>, <<Matcher(<<"ec2">>, "r1")>>, <<Matcher(<<"ec2", "rds">>, "r1")>>,
                 <<Matcher(<<"rds">>, "r1")>>},
        azure \in {<<>>, <<Matcher(<<"vm">>, "r1")>>, <<Matcher(<<"vm", "vm">>, "")>>},
        gcp \in GCPMatcherLists,
        kube \in KubeMatcherLists}
    \cup {Config(g, <<>>, <<>>, <<>>, kube, e, a) :
             g \in {"", ServiceGroup}, kube \in KubeMatcherLists, e \in BOOLEAN,
             a \in BOOLEAN}

\* a configuration with a group and all three VM matchers
FullConfig ==
    Config(ServiceGroup, <<Matcher(<<"ec2", "rds">>, "r1")>>, <<Matcher(<<"vm">>, "r1")>>,
           <<Matcher(<<"gce">>, "r1")>>, <<>>, TRUE, TRUE)

\* Matchers.IsEmpty
IsEmpty(c) == Len(c.gcp) = 0 /\ Len(c.aws) = 0 /\ Len(c.azure) = 0 /\ Len(c.kube) = 0

\* the client constructor of CheckAndSetDefaults that fails, if one does
DefaultsFailures == {"none", "cloudClients", "kubeClient"}

\* CheckAndSetDefaults without the check of Kubernetes matchers
CheckAndSetDefaults_NoKubeCheck(c, failing) ==
    IF IsEmpty(c) /\ c.group = "" THEN "noMatchers"
    ELSE IF ~c.emitter THEN "noEmitter"
    ELSE IF ~c.accessPoint THEN "noAccessPoint"
    ELSE IF failing = "cloudClients" THEN "cloudClientsErr"
    ELSE IF Len(c.kube) > 0 /\ failing = "kubeClient" THEN "kubeClientErr"
    ELSE "ok"

\* apiutils.Deduplicate: the first occurrence of every element, in order
Deduplicate(ss) ==
    SelectSeq([i \in DOMAIN ss |-> IF \E j \in 1..(i - 1) : ss[j] = ss[i]
                                   THEN "<dup>" ELSE ss[i]],
              LAMBDA e : e # "<dup>")

\* services.SimplifyAzureMatchers: the matchers in their order, each with its
\* types deduplicated and an empty or wildcard selector made the wildcard
SimplifyAzureMatchers(matchers) ==
    [i \in DOMAIN matchers |->
        [types |-> Deduplicate(matchers[i].types),
         region |-> IF matchers[i].region \in {"", "*"} THEN "*" ELSE matchers[i].region]]

\* the configuration as a successful CheckAndSetDefaults leaves it:
\* c.Matchers.Azure = services.SimplifyAzureMatchers(c.Matchers.Azure)
DefaultedConfig(c) == [c EXCEPT !.azure = SimplifyAzureMatchers(@)]

\* Config.CheckAndSetDefaults: "ok" or the error it returns; what it sets
\* when it returns nil is SetPollDefault and DefaultedConfig
CheckAndSetDefaults(c, failing) ==
    IF IsEmpty(c) /\ c.group = "" THEN "noMatchers"
    ELSE IF ~c.emitter THEN "noEmitter"
    ELSE IF ~c.accessPoint THEN "noAccessPoint"
    ELSE IF Len(c.kube) > 0 /\ c.group = "" THEN "kubeNoGroup"
    ELSE IF failing = "cloudClients" THEN "cloudClientsErr"
    ELSE IF Len(c.kube) > 0 /\ failing = "kubeClient" THEN "kubeClientErr"
    ELSE "ok"

\* the BadParameter errors of CheckAndSetDefaults
ConfigErrors == {"noMatchers", "noEmitter", "noAccessPoint", "kubeNoGroup"}

\* the step of New after the subscription that fails, if one does
InitFailures ==
    {"none", "dbAWS", "dbAzure", "aws", "reconciler", "azure", "gcpWatcher", "gcp",
     "nodeWatcher", "kubeApps"}

NoWatchers == [p \in Providers |-> "nil"]

\* poll intervals in minutes: the default CheckAndSetDefaults sets, and the
\* values of PollInterval a configuration is given (0: not set)
DefaultPollInterval == 5
GivenPollIntervals == {0, 10}

\* CheckAndSetDefaults: if c.PollInterval == 0 { c.PollInterval = 5 * time.Minute }
SetPollDefault(interval) == IF interval = 0 THEN DefaultPollInterval ELSE interval

\* a watcher constructor called without server.WithPollInterval: the watcher
\* keeps the interval of its own package
NoPollOption == [passed |-> FALSE, interval |-> 0]

\* server.WithPollInterval(interval)
WithPollInterval(interval) == [passed |-> TRUE, interval |-> interval]

\* the interval New passes to the constructor of the watcher of provider p:
\* server.WithPollInterval(s.PollInterval) for EC2 and Azure, no option for GCP
WatcherPollInterval(p, interval) ==
    IF p = "gcp" THEN NoPollOption ELSE WithPollInterval(interval)

\* no watcher was created: no interval was passed
NoWatcherPolls == [p \in Providers |-> NoPollOption]

\* the intervals of the watchers New created
WatcherPolls(created, interval) ==
    [p \in Providers |-> IF created[p] = "nil" THEN NoPollOption
                          ELSE WatcherPollInterval(p, interval)]

\* s.caRotationCh and s.reconciler are nil
NoneAllocated == [caRotationCh |-> FALSE, reconciler |-> FALSE]

\* initAWSWatchers making the channel and the reconciler whatever the matchers
AllocatedFor_Always(ec2Matchers) == [caRotationCh |-> TRUE, reconciler |-> TRUE]

\* the fields initAWSWatchers has allocated when it returns nil: both, inside
\* the branch len(ec2Matchers) > 0
AllocatedFor(ec2Matchers) ==
    [caRotationCh |-> Len(ec2Matchers) > 0, reconciler |-> Len(ec2Matchers) > 0]

\* New from databaseFetchersFromMatchers on: the watchers it creates, the
\* fields initAWSWatchers allocates and the error it returns
InitWatchers(c, failing) ==
    LET built == DatabaseFetchersFromMatchers(
                     c.aws, c.azure,
                     IF failing = "dbAWS" THEN "aws"
                     ELSE IF failing = "dbAzure" THEN "azure" ELSE NoBuildFailure)
        ec2 == Len(SplitMatchers(c.aws, {"ec2"}).split) > 0
        vm == Len(SplitMatchers(c.azure, {"vm"}).split) > 0
        gce == Len(c.gcp) > 0 /\ Len(SplitMatchers(c.gcp, {"gce"}).split) > 0
        afterAWS == [NoWatchers EXCEPT !["ec2"] = IF ec2 THEN "created" ELSE "nil"]
        afterAzure == [afterAWS EXCEPT !["azure"] = IF vm THEN "created" ELSE "nil"]
        afterGCP == [afterAzure EXCEPT !["gcp"] = IF gce THEN "created" ELSE "nil"]
        made == AllocatedFor(SplitMatchers(c.aws, {"ec2"}).split)
    IN IF built.err
       THEN [err |-> "dbErr", watchers |-> NoWatchers, allocated |-> NoneAllocated]
       ELSE IF ec2 /\ failing = "aws"
       THEN [err |-> "awsErr", watchers |-> NoWatchers,
             allocated |-> [caRotationCh |-> TRUE, reconciler |-> FALSE]]
       ELSE IF ec2 /\ failing = "reconciler"
       THEN [err |-> "awsErr", watchers |-> afterAWS,
             allocated |-> [caRotationCh |-> TRUE, reconciler |-> FALSE]]
       ELSE IF vm /\ failing = "azure"
       THEN [err |-> "azureErr", watchers |-> afterAWS, allocated |-> made]
       ELSE IF gce /\ failing = "gcpWatcher"
       THEN [err |-> "gcpErr", watchers |-> afterAzure, allocated |-> made]
       ELSE IF Len(c.gcp) > 0 /\ failing = "gcp"
       THEN [err |-> "gcpErr", watchers |-> afterGCP, allocated |-> made]
       ELSE IF (ec2 \/ vm \/ gce) /\ failing = "nodeWatcher"
       THEN [err |-> "nodeWatcherErr", watchers |-> afterGCP, allocated |-> made]
       ELSE IF Len(c.kube) > 0 /\ failing = "kubeApps"
       THEN [err |-> "kubeAppsErr", watchers |-> afterGCP, allocated |-> made]
       ELSE [err |-> "none", watchers |-> afterGCP, allocated |-> made]

\* the goroutines the server starts
Goroutines == Providers \cup {"reconciler", "ca", "updater"}

\* New up to the select of startDynamicMatchersWatcher, and to its end when
\* it does not get there
NewCall ==
    /\ newState = "none"
    /\ \E failing \in DefaultsFailures, opened \in BOOLEAN, initFailing \in InitFailures :
          LET checked == CheckAndSetDefaults(cfg, failing)
              built == InitWatchers(DefaultedConfig(cfg), initFailing)
          IN /\ cfg' = IF checked = "ok" THEN DefaultedConfig(cfg) ELSE cfg
             /\ IF checked # "ok"
                THEN /\ newState' = checked
                     /\ UNCHANGED <<subscription, watchers, allocated, poll>>
                ELSE IF cfg.group = ""
                THEN /\ newState' = IF built.err = "none" THEN "ok" ELSE built.err
                     /\ watchers' = built.watchers
                     /\ allocated' = built.allocated
                     /\ poll' = [poll EXCEPT
                                    !.interval = SetPollDefault(@),
                                    !.watchers = WatcherPolls(built.watchers,
                                                              SetPollDefault(poll.interval))]
                     /\ UNCHANGED subscription
                ELSE IF ~opened
                THEN /\ newState' = "newWatcherErr"
                     /\ poll' = [poll EXCEPT !.interval = SetPollDefault(@)]
                     /\ UNCHANGED <<subscription, watchers, allocated>>
                ELSE /\ newState' = "waitInit"
                     /\ subscription' = "open"
                     /\ poll' = [poll EXCEPT !.interval = SetPollDefault(@)]
                     /\ UNCHANGED <<watchers, allocated>>
    /\ UNCHANGED <<inventory, closed, scanVars, initialized, lateHandling, lockVars, caRotationRead, errKind, logged, splitVars, orderVars, dispatchVars, ctxDone, ctxErr, pc, caVars, dynVars,
                   firstSignal, dynamicMatcherWatcher, launched, startResult, syncStarted,
                   stopCalled, waitResult>>

\* what the subscription delivers first: an event of some type, or Done
\* with the subscription's error
Signals == {"init", "put", "delete", "done"}

\* watcher.Error() once Done has fired: the subscription's terminal error
DoneError == "watcherErr"

\* the select of startDynamicMatchersWatcher going on whatever the first
\* event is
NewFirstSignal_AnyEvent ==
    /\ newState = "waitInit"
    /\ \E signal \in Signals, initFailing \in InitFailures :
          LET built == InitWatchers(cfg, initFailing)
          IN /\ firstSignal' = signal
             /\ IF signal # "done"
                THEN /\ dynamicMatcherWatcher' = TRUE
                     /\ launched' = [launched EXCEPT !["updater"] = @ + 1]
                     /\ pcDyn' = "list"
                     /\ newState' = IF built.err = "none" THEN "ok" ELSE built.err
                     /\ watchers' = built.watchers
                     /\ allocated' = built.allocated
                     /\ poll' = [poll EXCEPT
                                    !.watchers = WatcherPolls(built.watchers, poll.interval)]
                ELSE /\ newState' = DoneError
                     /\ UNCHANGED <<dynamicMatcherWatcher, launched, pcDyn, watchers,
                                    allocated, poll>>
    /\ UNCHANGED <<inventory, closed, scanVars, initialized, lateHandling, lockVars, caRotationRead, errKind, logged, splitVars, orderVars, dispatchVars, ctxDone, ctxErr, pc, caVars,
                   dynamicDatabaseFetchers, lastEvent, cfg, subscription, startResult,
                   syncStarted, stopCalled, waitResult>>

\* the select of startDynamicMatchersWatcher and New from there to its end
NewFirstSignal ==
    /\ newState = "waitInit"
    /\ \E signal \in Signals, initFailing \in InitFailures :
          LET built == InitWatchers(cfg, initFailing)
          IN /\ firstSignal' = signal
             /\ IF signal = "init"
                THEN /\ dynamicMatcherWatcher' = TRUE
                     /\ launched' = [launched EXCEPT !["updater"] = @ + 1]
                     /\ pcDyn' = "list"
                     /\ newState' = IF built.err = "none" THEN "ok" ELSE built.err
                     /\ watchers' = built.watchers
                     /\ allocated' = built.allocated
                     /\ poll' = [poll EXCEPT
                                    !.watchers = WatcherPolls(built.watchers, poll.interval)]
                ELSE /\ newState' = IF signal = "done" THEN DoneError
                                    ELSE "unexpectedEvent"
                     /\ UNCHANGED <<dynamicMatcherWatcher, launched, pcDyn, watchers,
                                    allocated, poll>>
    /\ UNCHANGED <<inventory, closed, scanVars, initialized, lateHandling, lockVars, caRotationRead, errKind, logged, splitVars, orderVars, dispatchVars, ctxDone, ctxErr, pc, caVars,
                   dynamicDatabaseFetchers, lastEvent, cfg, subscription, startResult,
                   syncStarted, stopCalled, waitResult>>

\* startKubeWatchers, startKubeAppsWatchers, startDatabaseWatchers
SyncWatchers == <<"kube", "apps", "db">>

\* the watchers Start gets to when the one named fails
StartedUpTo(failing) ==
    IF \E i \in 1..Len(SyncWatchers) : SyncWatchers[i] = failing
    THEN SubSeq(SyncWatchers, 1,
                CHOOSE i \in 1..Len(SyncWatchers) : SyncWatchers[i] = failing)
    ELSE SyncWatchers

\* Start launching a dispatch goroutine for every provider
Start_LaunchesAll ==
    /\ newState = "ok"
    /\ startResult = "none"
    /\ launched' = [g \in Goroutines |->
                       launched[g] + (IF g \in Providers \cup {"reconciler"} THEN 1 ELSE 0)]
    /\ pc' = [p \in Providers |-> "waitInit"]
    /\ \E failing \in {"none"} \cup {SyncWatchers[i] : i \in 1..Len(SyncWatchers)} :
          /\ syncStarted' = StartedUpTo(failing)
          /\ startResult' = IF failing = "none" THEN "ok" ELSE failing
    /\ UNCHANGED <<inventory, closed, scanVars, initialized, lateHandling, poll, lockVars, allocated, caRotationRead, errKind, logged, splitVars, orderVars, dispatchVars, ctxDone, ctxErr, watchers, caVars, dynVars, cfg,
                   newState, firstSignal, subscription, dynamicMatcherWatcher, stopCalled,
                   waitResult>>

\* Start
Start ==
    /\ newState = "ok"
    /\ startResult = "none"
    /\ launched' = [g \in Goroutines |->
                       launched[g]
                       + (IF \/ g \in Providers /\ watchers[g] # "nil"
                             \/ g = "reconciler" /\ watchers["ec2"] # "nil"
                          THEN 1 ELSE 0)]
    /\ pc' = [p \in Providers |-> IF watchers[p] # "nil" THEN "waitInit" ELSE pc[p]]
    /\ \E failing \in {"none"} \cup {SyncWatchers[i] : i \in 1..Len(SyncWatchers)} :
          /\ syncStarted' = StartedUpTo(failing)
          /\ startResult' = IF failing = "none" THEN "ok" ELSE failing
    /\ UNCHANGED <<inventory, closed, scanVars, initialized, lateHandling, poll, lockVars, allocated, caRotationRead, errKind, logged, splitVars, orderVars, dispatchVars, ctxDone, ctxErr, watchers, caVars, dynVars, cfg,
                   newState, firstSignal, subscription, dynamicMatcherWatcher, stopCalled,
                   waitResult>>

\* the head of a dispatch goroutine going on when the initialization failed
WaitInitialization_IgnoresError(p) ==
    /\ pc[p] = "waitInit"
    /\ \E ok \in BOOLEAN :
          /\ pc' = [pc EXCEPT ![p] = "select"]
          /\ initialized' = [initialized EXCEPT ![p] = IF ok THEN "ok" ELSE "failed"]
          /\ watchers' = [watchers EXCEPT ![p] = IF @ = "created" THEN "running" ELSE @]
          /\ IF p = "ec2"
             THEN /\ launched' = [launched EXCEPT !["ca"] = @ + 1]
                  /\ pcCA' = "ticker"
             ELSE UNCHANGED <<launched, pcCA>>
    /\ UNCHANGED <<inventory, closed, scanVars, lateHandling, poll, lockVars, allocated, caRotationRead, errKind, logged, splitVars, orderVars, dispatchVars, ctxDone, ctxErr, cas, tick, caRotationCh,
                   dynVars, cfg, newState, firstSignal, subscription,
                   dynamicMatcherWatcher, startResult, syncStarted, stopCalled, waitResult>>

\* the head of a dispatch goroutine: nodeWatcher.WaitInitialization, then
\* the provider's watcher is run and, for EC2, watchCARotation is started
WaitInitialization(p) ==
    /\ pc[p] = "waitInit"
    /\ \E ok \in BOOLEAN :
          IF ~ok
          THEN /\ pc' = [pc EXCEPT ![p] = "returned"]
               /\ initialized' = [initialized EXCEPT ![p] = "failed"]
               /\ UNCHANGED <<watchers, launched, pcCA>>
          ELSE /\ pc' = [pc EXCEPT ![p] = "select"]
               /\ initialized' = [initialized EXCEPT ![p] = "ok"]
               /\ watchers' = [watchers EXCEPT ![p] = IF @ = "created" THEN "running" ELSE @]
               /\ IF p = "ec2"
                  THEN /\ launched' = [launched EXCEPT !["ca"] = @ + 1]
                       /\ pcCA' = "ticker"
                  ELSE UNCHANGED <<launched, pcCA>>
    /\ UNCHANGED <<inventory, closed, scanVars, lateHandling, poll, lockVars, allocated, caRotationRead, errKind, logged, splitVars, orderVars, dispatchVars, ctxDone, ctxErr, cas, tick, caRotationCh,
                   dynVars, cfg, newState, firstSignal, subscription,
                   dynamicMatcherWatcher, startResult, syncStarted, stopCalled, waitResult>>

\* Stop that leaves the watchers running
Stop_OnlyCancels ==
    /\ newState = "ok"
    /\ stopCalled' = TRUE
    /\ ctxDone' = TRUE
    /\ ctxErr' = IF ctxErr = "none" THEN "canceled" ELSE ctxErr
    /\ subscription' = IF dynamicMatcherWatcher THEN "closed" ELSE subscription
    /\ UNCHANGED <<inventory, closed, scanVars, initialized, lateHandling, poll, lockVars, allocated, caRotationRead, errKind, logged, splitVars, orderVars, dispatchVars, pc, caVars, dynVars, cfg, newState, firstSignal,
                   dynamicMatcherWatcher, launched, startResult, syncStarted, waitResult,
                   watchers>>

\* Stop
Stop ==
    /\ newState = "ok"
    /\ stopCalled' = TRUE
    /\ ctxDone' = TRUE
    /\ ctxErr' = IF ctxErr = "none" THEN "canceled" ELSE ctxErr
    /\ watchers' = [p \in Providers |-> IF watchers[p] = "nil" THEN "nil" ELSE "stopped"]
    /\ subscription' = IF dynamicMatcherWatcher THEN "closed" ELSE subscription
    /\ UNCHANGED <<inventory, closed, scanVars, initialized, lateHandling, poll, lockVars, allocated, caRotationRead, errKind, logged, splitVars, orderVars, dispatchVars, pc, caVars, dynVars, cfg, newState, firstSignal,
                   dynamicMatcherWatcher, launched, startResult, syncStarted, waitResult>>

\* the context New was given ends: it is cancelled or its deadline passes
ParentDone ==
    /\ newState \in {"waitInit", "ok"}
    /\ ~ctxDone
    /\ ctxDone' = TRUE
    /\ ctxErr' \in {"canceled", "deadline"}
    /\ UNCHANGED <<inventory, closed, scanVars, initialized, lateHandling, poll, lockVars, allocated, caRotationRead, errKind, logged, splitVars, orderVars, dispatchVars, pc, caVars, dynVars, watchers, lifeVars>>

\* Wait is called and blocks on s.ctx.Done()
WaitCall ==
    /\ newState = "ok"
    /\ waitResult = "none"
    /\ waitResult' = "blocked"
    /\ UNCHANGED <<inventory, closed, scanVars, initialized, lateHandling, poll, lockVars, allocated, caRotationRead, errKind, logged, splitVars, orderVars, dispatchVars, ctxDone, ctxErr, pc, caVars, dynVars, watchers,
                   cfg, newState, firstSignal, subscription, dynamicMatcherWatcher,
                   launched, startResult, syncStarted, stopCalled>>

\* Wait returning nil whatever ended the context
WaitReturn_AlwaysNil ==
    /\ waitResult = "blocked"
    /\ ctxDone
    /\ waitResult' = "nil"
    /\ UNCHANGED <<inventory, closed, scanVars, initialized, lateHandling, poll, lockVars, allocated, caRotationRead, errKind, logged, splitVars, orderVars, dispatchVars, ctxDone, ctxErr, pc, caVars, dynVars, watchers,
                   cfg, newState, firstSignal, subscription, dynamicMatcherWatcher,
                   launched, startResult, syncStarted, stopCalled>>

\* Wait gets past <-s.ctx.Done() and returns
WaitReturn ==
    /\ waitResult = "blocked"
    /\ ctxDone
    /\ waitResult' = IF ctxErr # "none" /\ ctxErr # "canceled" THEN "err" ELSE "nil"
    /\ UNCHANGED <<inventory, closed, scanVars, initialized, lateHandling, poll, lockVars, allocated, caRotationRead, errKind, logged, splitVars, orderVars, dispatchVars, ctxDone, ctxErr, pc, caVars, dynVars, watchers,
                   cfg, newState, firstSignal, subscription, dynamicMatcherWatcher,
                   launched, startResult, syncStarted, stopCalled>>

-----------------------------------------------------------------------------
(* The critical sections on s.mu and s.muDynamicFetchers, step by step *)

\* the keys of the event maps the concurrent calls of emitUsageEvents are
\* given: the calls share them, so that two calls can meet on one key
LockKeys == {<<"ec2", i>> : i \in InstanceIDs}

\* a provider goroutine calls emitUsageEvents with a map of events
EmitCall(p) ==
    /\ emitCall[p].pc \in {"idle", "done"}
    /\ \E events \in SUBSET LockKeys \ {{}} :
          emitCall' = [emitCall EXCEPT ![p] = [NoEmitCall EXCEPT !.pc = "lock",
                                                              !.events = events]]
    /\ UNCHANGED <<inventory, closed, scanVars, initialized, lateHandling, poll, allocated, caRotationRead, errKind, logged, splitVars,
                   orderVars, ctxDone, ctxErr, watchers, lifeVars, pc, caVars, dynVars,
                   dispatchVars, mu, muDynamicFetchers, update>>

\* s.mu.Lock() returning while another goroutine holds the mutex
LockMu_NoWait(p) ==
    /\ emitCall[p].pc = "lock"
    /\ mu' = p
    /\ emitCall' = [emitCall EXCEPT ![p].pc = "range"]
    /\ UNCHANGED <<inventory, closed, scanVars, initialized, lateHandling, poll, allocated, caRotationRead, errKind, logged, splitVars,
                   orderVars, ctxDone, ctxErr, watchers, lifeVars, pc, caVars, dynVars,
                   dispatchVars, muDynamicFetchers, update>>

\* s.mu.Lock(): it returns once no goroutine holds the mutex
LockMu(p) ==
    /\ emitCall[p].pc = "lock"
    /\ mu = "none"
    /\ mu' = p
    /\ emitCall' = [emitCall EXCEPT ![p].pc = "range"]
    /\ UNCHANGED <<inventory, closed, scanVars, initialized, lateHandling, poll, allocated, caRotationRead, errKind, logged, splitVars,
                   orderVars, ctxDone, ctxErr, watchers, lifeVars, pc, caVars, dynVars,
                   dispatchVars, muDynamicFetchers, update>>

\* the loop over the events submitting the cached ones too
RangeEvents_NoCacheCheck(p) ==
    /\ emitCall[p].pc = "range"
    /\ IF emitCall[p].events = {}
       THEN emitCall' = [emitCall EXCEPT ![p].pc = "unlock"]
       ELSE \E name \in emitCall[p].events :
               emitCall' = [emitCall EXCEPT ![p].pc = "insert",
                                            ![p].events = @ \ {name},
                                            ![p].key = name]
    /\ UNCHANGED <<inventory, closed, scanVars, initialized, lateHandling, poll, allocated, caRotationRead, errKind, logged, splitVars,
                   orderVars, ctxDone, ctxErr, watchers, lifeVars, pc, caVars, dynVars,
                   dispatchVars, mu, muDynamicFetchers, update>>

\* the loop over the events ending after its first submission
RangeEvents_StopsAfterFirst(p) ==
    /\ emitCall[p].pc = "range"
    /\ IF emitCall[p].events = {} \/ emitCall[p].submitted # {}
       THEN emitCall' = [emitCall EXCEPT ![p].pc = "unlock"]
       ELSE \E name \in emitCall[p].events :
               emitCall' =
                  [emitCall EXCEPT
                     ![p].pc = IF name \in usageEventCache THEN "range" ELSE "insert",
                     ![p].events = @ \ {name},
                     ![p].key = IF name \in usageEventCache THEN NoKey ELSE name]
    /\ UNCHANGED <<inventory, closed, scanVars, initialized, lateHandling, poll, allocated, caRotationRead, errKind, logged, splitVars,
                   orderVars, ctxDone, ctxErr, watchers, lifeVars, pc, caVars, dynVars,
                   dispatchVars, mu, muDynamicFetchers, update>>

\* the head of the loop over the events, in the order the map iteration
\* yields them: a cached key is skipped; after the last one the call returns
RangeEvents(p) ==
    /\ emitCall[p].pc = "range"
    /\ IF emitCall[p].events = {}
       THEN emitCall' = [emitCall EXCEPT ![p].pc = "unlock"]
       ELSE \E name \in emitCall[p].events :
               emitCall' =
                  [emitCall EXCEPT
                     ![p].pc = IF name \in usageEventCache THEN "range" ELSE "insert",
                     ![p].events = @ \ {name},
                     ![p].key = IF name \in usageEventCache THEN NoKey ELSE name]
    /\ UNCHANGED <<inventory, closed, scanVars, initialized, lateHandling, poll, allocated, caRotationRead, errKind, logged, splitVars,
                   orderVars, ctxDone, ctxErr, watchers, lifeVars, pc, caVars, dynVars,
                   dispatchVars, mu, muDynamicFetchers, update>>

\* the insert made in a fresh map that replaces the cache
InsertEvent_ReplacesCache(p) ==
    /\ emitCall[p].pc = "insert"
    /\ usageEventCache' = {emitCall[p].key}
    /\ emitCall' = [emitCall EXCEPT ![p].pc = "submit"]
    /\ UNCHANGED <<inventory, closed, scanVars, initialized, lateHandling, poll, allocated, caRotationRead, errKind, logged, splitVars,
                   orderVars, ctxDone, ctxErr, watchers, lifeVars, pc, caVars, dynVars,
                   submitCount, last, nBatches, reinstalled, mu, muDynamicFetchers, update>>

\* s.usageEventCache[name] = struct{}{}, followed by the call of
\* SubmitUsageEvent
InsertEvent(p) ==
    /\ emitCall[p].pc = "insert"
    /\ usageEventCache' = usageEventCache \cup {emitCall[p].key}
    /\ emitCall' = [emitCall EXCEPT ![p].pc = "submit"]
    /\ UNCHANGED <<inventory, closed, scanVars, initialized, lateHandling, poll, allocated, caRotationRead, errKind, logged, splitVars,
                   orderVars, ctxDone, ctxErr, watchers, lifeVars, pc, caVars, dynVars,
                   submitCount, last, nBatches, reinstalled, mu, muDynamicFetchers, update>>

\* SubmitUsageEvent with the insert taken back when it fails
SubmitUsageEvent_UncachesOnError(p) ==
    /\ emitCall[p].pc = "submit"
    /\ submitCount' = [submitCount EXCEPT ![emitCall[p].key] = @ + 1]
    /\ \E ok \in BOOLEAN :
          /\ usageEventCache' = IF ok THEN usageEventCache
                                ELSE usageEventCache \ {emitCall[p].key}
          /\ emitCall' = [emitCall EXCEPT ![p].pc = IF ok THEN "range" ELSE "unlock",
                                          ![p].submitted = @ \cup {emitCall[p].key},
                                          ![p].err = ~ok,
                                          ![p].key = NoKey]
    /\ UNCHANGED <<inventory, closed, scanVars, initialized, lateHandling, poll, allocated, caRotationRead, errKind, logged, splitVars,
                   orderVars, ctxDone, ctxErr, watchers, lifeVars, pc, caVars, dynVars,
                   last, nBatches, reinstalled, mu, muDynamicFetchers, update>>

\* SubmitUsageEvent returns from the access point: its error ends the loop
\* and is the error of the call
SubmitUsageEvent(p) ==
    /\ emitCall[p].pc = "submit"
    /\ submitCount' = [submitCount EXCEPT ![emitCall[p].key] = @ + 1]
    /\ \E ok \in BOOLEAN :
          emitCall' = [emitCall EXCEPT ![p].pc = IF ok THEN "range" ELSE "unlock",
                                       ![p].submitted = @ \cup {emitCall[p].key},
                                       ![p].err = ~ok,
                                       ![p].key = NoKey]
    /\ UNCHANGED <<inventory, closed, scanVars, initialized, lateHandling, poll, allocated, caRotationRead, errKind, logged, splitVars,
                   orderVars, ctxDone, ctxErr, watchers, lifeVars, pc, caVars, dynVars,
                   usageEventCache, last, nBatches, reinstalled, mu, muDynamicFetchers, update>>

\* the deferred s.mu.Unlock() as emitUsageEvents returns to the handler
UnlockMu(p) ==
    /\ emitCall[p].pc = "unlock"
    /\ mu' = "none"
    /\ emitCall' = [emitCall EXCEPT ![p].pc = "done"]
    /\ UNCHANGED <<inventory, closed, scanVars, initialized, lateHandling, poll, allocated, caRotationRead, errKind, logged, splitVars,
                   orderVars, ctxDone, ctxErr, watchers, lifeVars, pc, caVars, dynVars,
                   dispatchVars, muDynamicFetchers, update>>

\* the events that make the updater change the table: an upsert in the
\* service's group, an upsert in another group, a delete
LockEvents ==
    {[type |-> "put",
      resource |-> DiscoveryConfig("dc1", g, <<Matcher(<<"rds">>, "r1")>>, <<>>)] :
        g \in DiscoveryGroups}
    \cup {[type |-> "delete", resource |-> ResourceHeader("discovery_config", "dc1")]}

\* the updater outside a mutation
NoUpdate == [pc |-> "idle", table |-> <<>>]

\* the table a handled event asks for: the entry replaced, or deleted
TableAfter(table, ev) ==
    IF ev.type = "put" /\ ev.resource.group = ServiceGroup
    THEN UpsertDynamicMatchers(table, ev.resource, ev.failing).table
    ELSE DeleteDynamicFetchers(table, ev.resource.name)

\* the event loop takes an event up to the Lock it leads to; an upsert whose
\* fetchers cannot be built leads to none
TakeEvent ==
    /\ pcDyn = "events"
    /\ update.pc = "idle"
    /\ \E event \in LockEvents : \E failing \in {NoBuildFailure, "aws"} :
          LET ev == [type |-> event.type, resource |-> event.resource,
                     failing |-> failing]
          IN /\ lastEvent' = ev
             /\ update' = IF ev.type = "put" /\ ev.resource.group = ServiceGroup
                              /\ UpsertDynamicMatchers(dynamicDatabaseFetchers,
                                                       ev.resource, failing).err
                           THEN NoUpdate
                           ELSE [pc |-> "lock", table |-> <<>>]
    /\ UNCHANGED <<inventory, closed, scanVars, initialized, lateHandling, poll, allocated, caRotationRead, errKind, logged, splitVars,
                   orderVars, ctxDone, ctxErr, watchers, lifeVars, pc, caVars, dispatchVars,
                   dynamicDatabaseFetchers, pcDyn, mu, muDynamicFetchers, emitCall>>

\* s.muDynamicFetchers.Lock()
LockDynamicFetchers ==
    /\ update.pc = "lock"
    /\ muDynamicFetchers = "none"
    /\ muDynamicFetchers' = "updater"
    /\ update' = [update EXCEPT !.pc = "write"]
    /\ UNCHANGED <<inventory, closed, scanVars, initialized, lateHandling, poll, allocated, caRotationRead, errKind, logged, splitVars,
                   orderVars, ctxDone, ctxErr, watchers, lifeVars, pc, caVars, dispatchVars,
                   dynVars, mu, emitCall>>

\* the assignment to, or the delete from, s.dynamicDatabaseFetchers
WriteDynamicFetchers ==
    /\ update.pc = "write"
    /\ dynamicDatabaseFetchers' = TableAfter(dynamicDatabaseFetchers, lastEvent)
    /\ update' = [update EXCEPT !.pc = "unlock"]
    /\ UNCHANGED <<inventory, closed, scanVars, initialized, lateHandling, poll, allocated, caRotationRead, errKind, logged, splitVars,
                   orderVars, ctxDone, ctxErr, watchers, lifeVars, pc, caVars, dispatchVars,
                   pcDyn, lastEvent, mu, muDynamicFetchers, emitCall>>

\* s.muDynamicFetchers.Unlock()
UnlockDynamicFetchers ==
    /\ update.pc = "unlock"
    /\ muDynamicFetchers' = "none"
    /\ update' = NoUpdate
    /\ UNCHANGED <<inventory, closed, scanVars, initialized, lateHandling, poll, allocated, caRotationRead, errKind, logged, splitVars,
                   orderVars, ctxDone, ctxErr, watchers, lifeVars, pc, caVars, dispatchVars,
                   dynVars, mu, emitCall>>

-----------------------------------------------------------------------------
(* Specifications *)

\* the fields New gives a server
InitFields ==
    /\ usageEventCache = {}
    /\ submitCount = [k \in EventKeys |-> 0]
    /\ last = [batch |-> NoBatch, result |-> "none", run |-> <<>>, submitted |-> {},
               emitErr |-> FALSE, queued |-> <<>>]
    /\ nBatches = 0
    /\ reinstalled = FALSE
    /\ ctxDone = FALSE
    /\ ctxErr = "none"
    /\ tick = NoTick
    /\ caRotationCh = {}
    /\ dynamicDatabaseFetchers = [n \in ConfigNames |-> NoEntry]
    /\ lastEvent = NoEvent
    /\ stopCalled = FALSE
    /\ waitResult = "none"
    /\ instancesC = [p \in Providers |-> <<>>]
    /\ sent = [p \in Providers |-> 0]
    /\ closed = [p \in Providers |-> FALSE]
    /\ handling = [p \in Providers |-> {}]
    /\ handled = [p \in Providers |-> <<>>]
    /\ splitResult = NoSplitResult
    /\ logged = "none"
    /\ caRotationRead = [called |-> FALSE, err |-> FALSE, time |-> 0]
    /\ lateHandling = {}
    /\ mu = "none"
    /\ muDynamicFetchers = "none"
    /\ emitCall = [p \in Providers |-> NoEmitCall]
    /\ update = NoUpdate
    /\ page = NoPage
    /\ occurrence = [n \in ConfigNames |-> "none"]

\* the server as New leaves it and Start sets it going, with every provider
\* configured: nothing handled yet, the context live, the dispatch loops and
\* the CA-rotation watcher at the head of their loops
InitRunning ==
    /\ InitFields
    /\ pc = [p \in Providers |-> "select"]
    /\ pcCA = "ticker"
    /\ watchers = [p \in Providers |-> "running"]
    /\ initialized = [p \in Providers |-> "ok"]
    /\ allocated = [caRotationCh |-> TRUE, reconciler |-> TRUE]
    /\ poll = [given |-> 0, interval |-> DefaultPollInterval,
               watchers |-> WatcherPolls([p \in Providers |-> "running"],
                                         DefaultPollInterval)]
    /\ cfg = FullConfig
    /\ newState = "ok"
    /\ firstSignal = "init"
    /\ subscription = "open"
    /\ dynamicMatcherWatcher = TRUE
    /\ launched = [g \in Goroutines |-> 1]
    /\ startResult = "ok"
    /\ syncStarted = SyncWatchers

\* that server with the updater at the start of its listing, no call of
\* splitMatchers followed, and collaborators whose errors are of no special kind
InitServer ==
    InitRunning /\ pcDyn = "list" /\ splitCall = NoSplitCall /\ errKind = "other"

\* a configuration with a group and the matchers of one provider
ProviderConfig(p) ==
    Config(ServiceGroup,
           IF p = "ec2" THEN <<Matcher(<<"ec2", "rds">>, "r1")>> ELSE <<>>,
           IF p = "azure" THEN <<Matcher(<<"vm">>, "r1")>> ELSE <<>>,
           IF p = "gcp" THEN <<Matcher(<<"gce">>, "r1")>> ELSE <<>>,
           <<>>, TRUE, TRUE)

\* the server as New and Start set it going with configuration c, which has a
\* group: the watchers and fields New made for c, the goroutines Start and
\* the EC2 loop launched, every dispatch loop there is past WaitInitialization
\* and at its select
InitStarted(c) ==
    LET made == InitWatchers(DefaultedConfig(c), "none")
    IN  /\ InitFields
        /\ cfg = DefaultedConfig(c)
        /\ watchers = [p \in Providers |->
                          IF made.watchers[p] = "nil" THEN "nil" ELSE "running"]
        /\ initialized = [p \in Providers |->
                             IF made.watchers[p] = "nil" THEN "none" ELSE "ok"]
        /\ pc = [p \in Providers |-> IF made.watchers[p] = "nil" THEN "idle" ELSE "select"]
        /\ pcCA = IF made.watchers["ec2"] = "nil" THEN "idle" ELSE "ticker"
        /\ allocated = made.allocated
        /\ poll = [given |-> 0, interval |-> DefaultPollInterval,
                   watchers |-> WatcherPolls(made.watchers, DefaultPollInterval)]
        /\ launched = [g \in Goroutines |->
                          IF g = "updater" THEN 1
                          ELSE IF g \in {"reconciler", "ca"}
                          THEN (IF made.watchers["ec2"] = "nil" THEN 0 ELSE 1)
                          ELSE (IF made.watchers[g] = "nil" THEN 0 ELSE 1)]
        /\ newState = "ok"
        /\ firstSignal = "init"
        /\ subscription = "open"
        /\ dynamicMatcherWatcher = TRUE
        /\ startResult = "ok"
        /\ syncStarted = SyncWatchers
        /\ pcDyn = "list"
        /\ splitCall = NoSplitCall
        /\ errKind = "other"

\* the dispatch loop of a server configured for one provider, over the
\* inventories of that provider's nodes
Init ==
    \E p \in Providers :
        inventory \in Inventories(p) /\ cas = StandbyCAs /\ InitStarted(ProviderConfig(p))

\* emitUsageEvents, step by step
EmitUsageEvents(p) ==
    LockMu(p) \/ RangeEvents(p) \/ InsertEvent(p) \/ SubmitUsageEvent(p) \/ UnlockMu(p)

\* the handling of a batch the loop has taken, step by step
Handle(p) == CallInstaller(p) \/ RunReturn(p) \/ EmitUsageEvents(p) \/ HandlerReturn(p)

Next ==
    \/ HandleEC2Discovery \/ HandleAzureDiscovery \/ HandleGCPDiscovery
    \/ \E p \in Providers : Handle(p)

Spec == Init /\ [][Next]_vars

\* case <-s.ctx.Done() of a dispatch loop: the watcher is stopped and the
\* goroutine returns
LoopReturn(p) ==
    /\ pc[p] = "select"
    /\ ctxDone
    /\ pc' = [pc EXCEPT ![p] = "returned"]
    /\ watchers' = [watchers EXCEPT ![p] = "stopped"]
    /\ UNCHANGED <<inventory, closed, scanVars, initialized, lateHandling, poll, lockVars, allocated, caRotationRead, errKind, logged, splitVars, orderVars, dispatchVars, ctxDone, ctxErr, lifeVars, caVars, dynVars>>

\* an empty inventory, and one that holds a node of each provider
LoopInventories ==
    {{}, {EC2Node("a1", "i1"), AzureNode("s1", "v1"), GCPNode("p1", "z1", "n1")}}

\* the dispatch loop of a server configured for one provider that Stop or the
\* end of the parent context cancels
InitLoop ==
    \E p \in Providers :
        inventory \in LoopInventories /\ cas = StandbyCAs /\ InitStarted(ProviderConfig(p))

NextLoop == Next \/ Stop \/ ParentDone \/ \E p \in Providers : LoopReturn(p)

SpecLoop == InitLoop /\ [][NextLoop]_vars

\* the dispatch loops fed by their watchers' channels, with one node of each
\* provider enrolled
InitOrder ==
    /\ inventory = {EC2Node("a1", "i1"), AzureNode("s1", "v1"), GCPNode("p1", "z1", "n1")}
    /\ cas = StandbyCAs
    /\ InitServer

NextOrder == \E p \in Providers : Emit(p) \/ Receive(p) \/ Handle(p)

SpecOrder == InitOrder /\ [][NextOrder]_vars

\* a configuration with a group and EC2 and Azure matchers, none for GCP
TwoProviderConfig ==
    Config(ServiceGroup, <<Matcher(<<"ec2", "rds">>, "r1")>>, <<Matcher(<<"vm">>, "r1")>>,
           <<>>, <<>>, TRUE, TRUE)

\* the dispatch loops fed by their watchers' channels when Stop is called, in
\* a server New and Start set going with EC2 and Azure watchers: a select
\* that finds both a batch and the cancelled context takes either
InitHalt ==
    /\ InitFields
    /\ inventory = {EC2Node("a1", "i1"), AzureNode("s1", "v1")}
    /\ cas = StandbyCAs
    /\ cfg = TwoProviderConfig
    /\ watchers = [p \in Providers |-> IF p = "gcp" THEN "nil" ELSE "running"]
    /\ initialized = [p \in Providers |-> IF p = "gcp" THEN "none" ELSE "ok"]
    /\ pc = [p \in Providers |-> IF p = "gcp" THEN "idle" ELSE "select"]
    /\ launched = [g \in Goroutines |-> IF g = "gcp" THEN 0 ELSE 1]
    /\ pcCA = "ticker"
    /\ pcDyn = "list"
    /\ allocated = [caRotationCh |-> TRUE, reconciler |-> TRUE]
    /\ poll = [given |-> 0, interval |-> DefaultPollInterval,
               watchers |-> WatcherPolls(watchers, DefaultPollInterval)]
    /\ newState = "ok"
    /\ firstSignal = "init"
    /\ subscription = "open"
    /\ dynamicMatcherWatcher = TRUE
    /\ startResult = "ok"
    /\ syncStarted = SyncWatchers
    /\ splitCall = NoSplitCall
    /\ errKind = "other"

\* a panic no goroutine recovers ends the process: no goroutine takes a
\* further step
NextHalt ==
    /\ ~Panicked
    /\ \/ Stop
       \/ \E p \in Providers :
             \/ Emit(p) \/ CloseInstancesC(p)
             \/ Receive(p) \/ ReceiveClosed(p) \/ Handle(p) \/ LoopReturn(p)

SpecHalt == InitHalt /\ [][NextHalt]_vars

\* the server when Start has returned: every dispatch goroutine is about to
\* wait for the node watcher, no provider watcher runs yet
InitGate ==
    /\ InitFields
    /\ inventory = {EC2Node("a1", "i1"), AzureNode("s1", "v1"), GCPNode("p1", "z1", "n1")}
    /\ cas = StandbyCAs
    /\ cfg = FullConfig
    /\ watchers = [p \in Providers |-> "created"]
    /\ initialized = [p \in Providers |-> "none"]
    /\ pc = [p \in Providers |-> "waitInit"]
    /\ launched = [g \in Goroutines |-> IF g = "ca" THEN 0 ELSE 1]
    /\ pcCA = "idle"
    /\ pcDyn = "list"
    /\ allocated = [caRotationCh |-> TRUE, reconciler |-> TRUE]
    /\ poll = [given |-> 0, interval |-> DefaultPollInterval,
               watchers |-> WatcherPolls(watchers, DefaultPollInterval)]
    /\ newState = "ok"
    /\ firstSignal = "init"
    /\ subscription = "open"
    /\ dynamicMatcherWatcher = TRUE
    /\ startResult = "ok"
    /\ syncStarted = SyncWatchers
    /\ splitCall = NoSplitCall
    /\ errKind = "other"

NextGate ==
    \E p \in Providers : WaitInitialization(p) \/ Emit(p) \/ Receive(p) \/ Handle(p)

SpecGate == InitGate /\ [][NextGate]_vars

\* C34: in every dispatch goroutine the provider watcher runs, a batch is
\* sent, received or handled and the installer is invoked only after
\* nodeWatcher.WaitInitialization succeeded in that goroutine; when it failed
\* the goroutine has returned, the provider's watcher never runs, nothing of
\* that provider is handled and, for EC2, watchCARotation is never started
C34_NoEnrollmentBeforeInventoryReady ==
    /\ \A p \in Providers :
          /\ (\/ watchers[p] = "running"
              \/ pc[p] \in {"select", "handle"}
              \/ sent[p] > 0
              \/ handling[p] # {}
              \/ handled[p] # <<>>) => initialized[p] = "ok"
          /\ initialized[p] = "failed" =>
                /\ pc[p] = "returned"
                /\ watchers[p] = "created"
                /\ instancesC[p] = <<>>
    /\ (last.batch # NoBatch) => initialized[last.batch.prov] = "ok"
    /\ (launched["ca"] > 0 \/ pcCA # "idle") => initialized["ec2"] = "ok"

\* C34: the EC2 goroutine returned on a failed initialization while another
\* provider, initialized, had its installer invoked
C34_Witness ==
    /\ initialized["ec2"] = "failed"
    /\ \E p \in Providers :
          /\ initialized[p] = "ok"
          /\ last.batch # NoBatch /\ last.batch.prov = p
          /\ last.run # <<>>

\* splitMatchers applied to every matcher list and type predicate of the bounds
InitSplit ==
    /\ inventory = {}
    /\ cas = StandbyCAs
    /\ InitRunning
    /\ pcDyn = "list"
    /\ splitCall \in SplitCalls
    /\ errKind = "other"

NextSplit == CallSplitMatchers

SpecSplit == InitSplit /\ [][NextSplit]_vars

\* the dispatch loops with collaborators that fail with each kind of error
InitLog ==
    /\ inventory \in LoopInventories
    /\ cas = StandbyCAs
    /\ InitRunning
    /\ pcDyn = "list"
    /\ splitCall = NoSplitCall
    /\ errKind \in ErrorKinds

NextLog == Next

SpecLog == InitLog /\ [][NextLog]_vars

\* the CA-rotation watcher over every state of the two CAs
InitCA == inventory \in RotationInventories /\ cas \in [CATypes -> Rotations] /\ InitServer

NextCA ==
    \/ WatchCARotationTick \/ SendRotation \/ WatchCARotationReturn
    \/ Stop \/ ParentDone

SpecCA == InitCA /\ [][NextCA]_vars

\* the life of a server from the call of New on
InitLife ==
    /\ InitFields
    /\ inventory = {}
    /\ cas = StandbyCAs
    /\ pc = [p \in Providers |-> "idle"]
    /\ pcCA = "idle"
    /\ pcDyn = "idle"
    /\ splitCall = NoSplitCall
    /\ errKind = "other"
    /\ watchers = NoWatchers
    /\ initialized = [p \in Providers |-> "none"]
    /\ allocated = NoneAllocated
    /\ \E given \in GivenPollIntervals :
          poll = [given |-> given, interval |-> given, watchers |-> NoWatcherPolls]
    /\ cfg \in Configs
    /\ newState = "none"
    /\ firstSignal = "none"
    /\ subscription = "none"
    /\ dynamicMatcherWatcher = FALSE
    /\ launched = [g \in Goroutines |-> 0]
    /\ startResult = "none"
    /\ syncStarted = <<>>

NextLife ==
    \/ NewCall \/ NewFirstSignal \/ Start \/ Stop \/ ParentDone \/ WaitCall \/ WaitReturn
    \/ \E p \in Providers : WaitInitialization(p) \/ LoopReturn(p)

SpecLife == InitLife /\ [][NextLife]_vars

\* a CA that was rotated at instant 1 and one that never was
RotatedCAs ==
    [StandbyCAs EXCEPT !["host"] = [state |-> "standby", started |-> 0, lastRotated |-> 1]]

\* the teardown of a running server whose updater is in its event loop: with
\* and without an OpenSSH node the host CA has rotated after
InitStop ==
    /\ inventory \in {{}, {Node([NoLabels EXCEPT !["account"] = "a1", !["instance"] = "i1"],
                                "openssh", 0)}}
    /\ cas \in {StandbyCAs, RotatedCAs}
    /\ InitRunning
    /\ pcDyn = "events"
    /\ splitCall = NoSplitCall
    /\ errKind = "other"

\* the goroutines' steps that end them or lead to their end, and Stop; the
\* handling of a batch or of an event takes a goroutine back to its select
NextStop ==
    \/ Stop
    \/ \E p \in Providers : LoopReturn(p)
    \/ WatchCARotationTick \/ SendRotation \/ WatchCARotationReturn
    \/ SubscriptionFails \/ WatcherDone

\* every goroutine that can take a step eventually takes one
SpecStop ==
    /\ InitStop /\ [][NextStop]_vars
    /\ \A p \in Providers : WF_vars(LoopReturn(p))
    /\ WF_vars(WatchCARotationTick) /\ WF_vars(SendRotation)
    /\ WF_vars(WatchCARotationReturn)
    /\ WF_vars(WatcherDone)

\* the dynamic matcher updater from the start of its listing, one config at a
\* time, and on through its event loop
InitDyn == inventory = {} /\ cas = StandbyCAs /\ InitServer

NextDyn == ListPage \/ UpsertListed \/ ProcessEvent \/ SubscriptionFails \/ WatcherDone

SpecDyn == InitDyn /\ [][NextDyn]_vars

\* the updater in its event loop, from an empty table, until the
\* subscription ends; a select whose Done case stays ready eventually takes it
InitDone ==
    /\ inventory = {}
    /\ cas = StandbyCAs
    /\ InitRunning
    /\ pcDyn = "events"
    /\ splitCall = NoSplitCall
    /\ errKind = "other"

NextDone == HandleEvent \/ SubscriptionFails \/ WatcherDone

\* the event loop alone, with no assumption on its scheduling
SpecEvents == InitDone /\ [][NextDone]_vars

SpecDone == SpecEvents /\ WF_vars(WatcherDone)

\* the provider goroutines in concurrent calls of emitUsageEvents and the
\* updater changing the table, one lock operation at a time
InitLock == InitDone

NextLock ==
    \/ \E p \in Providers :
          EmitCall(p) \/ EmitUsageEvents(p)
    \/ TakeEvent \/ LockDynamicFetchers \/ WriteDynamicFetchers \/ UnlockDynamicFetchers

SpecLock == InitLock /\ [][NextLock]_vars

-----------------------------------------------------------------------------
(* Properties of the installer dispatch *)

\* a handler has just returned to its dispatch loop
Stepped == handled' # handled

\* Some inventory node carries both the scope labels and the identity label
\* the filter of the provider compares for the instance: the batch's account
\* ID and the instance ID, the batch's subscription ID and the VM ID, and for
\* GCP the instance's own project ID and zone and its name.
Enrolled(b, inst, inv) ==
    \E node \in inv :
        CASE b.prov = "ec2" -> /\ node.labels["account"] = b.scope
                               /\ node.labels["instance"] = inst.id
          [] b.prov = "azure" -> /\ node.labels["subscription"] = b.scope
                                 /\ node.labels["vmid"] = inst.id
          [] b.prov = "gcp" -> /\ node.labels["project"] = inst.project
                               /\ node.labels["zone"] = inst.zone
                               /\ node.labels["name"] = inst.id
          [] OTHER -> FALSE

\* The same with the scope of the batch for every provider: for GCP the
\* batch's project ID and zone.
EnrolledInBatchScope(b, inst, inv) ==
    IF b.prov = "gcp"
    THEN \E node \in inv : /\ node.labels["project"] = b.scope
                           /\ node.labels["zone"] = b.zone
                           /\ node.labels["name"] = inst.id
    ELSE Enrolled(b, inst, inv)

NotEnrolledInBatchScope(b, inv) ==
    LET New(inst) == ~EnrolledInBatchScope(b, inst, inv) IN SelectSeq(b.instances, New)

NotEnrolled(b, inv) ==
    LET New(inst) == ~Enrolled(b, inst, inv) IN SelectSeq(b.instances, New)

\* the handling got as far as the inventory filter
ReachedFilter(h) == h.result \notin {"none", "clientErr", "infosErr"}

NoNewInstances == {"notFound", "errNoInstances"}

\* C1 as stated: with a static inventory no instance is passed to Run by two
\* successive non-rotation batches of one scope (at most one install request
\* per instance identity).
C1_AtMostOneRunPerInstance == ~reinstalled

\* C1, amended: with a static inventory, two successive non-rotation batches
\* of one scope treat an instance they share alike: each passes it to Run
\* (once, in its single request) if no inventory node holds it under that
\* scope, and neither does if one holds it.
C1_RunOncePerBatchUntilEnrolled ==
    [][(/\ Stepped
        /\ SameScope(last.batch, last'.batch)
        /\ ~last.batch.rotation /\ ~last'.batch.rotation
        /\ ReachedFilter(last) /\ ReachedFilter(last'))
       => /\ Len(last'.run) <= 1
          /\ \A inst \in Range(last.batch.instances) \cap Range(last'.batch.instances) :
                /\ inst \in Targets(last) <=> ~Enrolled(last.batch, inst, inventory)
                /\ inst \in Targets(last') <=> ~Enrolled(last'.batch, inst, inventory)]_vars

\* The same instance, absent from the inventory, went to Run in two successive
\* non-rotation batches.
C1_Witness ==
    /\ reinstalled
    /\ nBatches = 2
    /\ \E inst \in Targets(last) : ~Enrolled(last.batch, inst, inventory)

\* C2 as stated: for a non-rotation batch, the targets of Run are exactly the
\* batch's instances, in their order, that no single inventory node matches on
\* both the batch's scope (account ID, subscription ID, GCP project and zone)
\* and the instance's identity.
C2_TargetsNotEnrolledInBatchScope ==
    (~last.batch.rotation /\ Len(last.run) > 0)
        => /\ Len(last.run) = 1
           /\ last.run[1].targets = NotEnrolledInBatchScope(last.batch, inventory)

\* C2, amended: a non-rotation batch whose handler got as far as the filter
\* has its instances that no single inventory node matches on both scope and
\* identity passed to Run, in their order, in one request, and no Run when
\* there is none; the scope is the batch's account ID or subscription ID, and
\* for GCP the project ID and zone of the instance itself, whatever the
\* batch's.
C2_TargetsAreTheNotEnrolled ==
    (~last.batch.rotation /\ ReachedFilter(last))
        => IF NotEnrolled(last.batch, inventory) = <<>>
           THEN last.run = <<>>
           ELSE /\ Len(last.run) = 1
                /\ last.run[1].targets = NotEnrolled(last.batch, inventory)

\* C2: Run got both instances of a GCP batch, in the batch's order. Each has
\* its name on a node of its project in another zone, and a node of its own
\* project and zone has another name; the first is of a zone that is not the
\* batch's, and a node carries its name with the batch's project and zone.
C2_Witness ==
    /\ last.batch.prov = "gcp"
    /\ Len(last.batch.instances) = 2
    /\ Len(last.run) = 1
    /\ last.run[1].targets = last.batch.instances
    /\ \A inst \in Range(last.batch.instances) :
          /\ \E node \in inventory : /\ node.labels["name"] = inst.id
                                     /\ node.labels["project"] = inst.project
                                     /\ node.labels["zone"] # inst.zone
          /\ \E node \in inventory : /\ node.labels["name"] # inst.id
                                     /\ node.labels["project"] = inst.project
                                     /\ node.labels["zone"] = inst.zone
    /\ last.batch.instances[1].zone # last.batch.zone
    /\ EnrolledInBatchScope(last.batch, last.batch.instances[1], inventory)

\* C2, GCP: of a batch of two instances Run got the first alone. The second,
\* of a zone that is not the batch's, was removed for the node of its own
\* zone, while no node has its name in the batch's zone.
C2_WitnessGCPRemoved ==
    /\ last.batch.prov = "gcp"
    /\ Len(last.batch.instances) = 2
    /\ Len(last.run) = 1
    /\ last.run[1].targets = <<last.batch.instances[1]>>
    /\ last.batch.instances[2].zone # last.batch.zone
    /\ ~EnrolledInBatchScope(last.batch, last.batch.instances[2], inventory)

\* C2, EC2: Run got the second instance alone of a batch of two, and that
\* instance has its ID on a node of another account.
C2_WitnessEC2 ==
    /\ last.batch.prov = "ec2"
    /\ ~last.batch.rotation
    /\ Len(last.batch.instances) = 2
    /\ Len(last.run) = 1
    /\ last.run[1].targets = <<last.batch.instances[2]>>
    /\ \E node \in inventory :
          /\ node.labels["instance"] = last.run[1].targets[1].id
          /\ node.labels["account"] \notin {Absent, last.batch.scope}

\* C2, Azure: Run got both VMs of a batch, in the batch's order; one has its
\* ID on a node of another subscription.
C2_WitnessAzure ==
    /\ last.batch.prov = "azure"
    /\ Len(last.batch.instances) = 2
    /\ Len(last.run) = 1
    /\ last.run[1].targets = last.batch.instances
    /\ \E node \in inventory :
          /\ node.labels["vmid"] = last.batch.instances[1].id
          /\ node.labels["subscription"] # last.batch.scope

\* C3: a rotation batch is not filtered: once the client is obtained and the
\* server infos are built, all its instances, enrolled or not, go to Run in
\* one request.
C3_RotationNotFiltered ==
    (last.batch.rotation /\ ReachedFilter(last) /\ Len(last.batch.instances) > 0)
        => /\ Len(last.run) = 1
           /\ last.run[1].targets = last.batch.instances
           /\ last.run[1].scope = last.batch.scope

\* A rotation batch with an enrolled instance went to Run.
C3_Witness ==
    /\ last.batch.rotation
    /\ Len(last.run) = 1
    /\ \E inst \in Targets(last) : Enrolled(last.batch, inst, inventory)

\* the batch is empty once the handler has filtered it
EmptyAfterFilter(b, inv) ==
    IF b.rotation THEN Len(b.instances) = 0 ELSE Len(NotEnrolled(b, inv)) = 0

\* the step changes the usage-event cache or submits a usage event
EmitsStep == usageEventCache' # usageEventCache \/ submitCount' # submitCount

\* C4: a batch that is empty after filtering ends with "no new instances":
\* no Run, no call of emitUsageEvents and so no usage event, and no step of
\* its handling changes the cache or submits an event: such a step belongs
\* to the handling, by the goroutine that holds s.mu, of a batch that is not
\* empty after filtering; for EC2, Azure and GCP.
C4_NoNewInstancesStops ==
    [][/\ (Stepped /\ EmptyAfterFilter(last'.batch, inventory))
          => /\ ReachedFilter(last') => last'.result \in NoNewInstances
             /\ Len(last'.run) = 0
             /\ last'.submitted = {} /\ ~last'.emitErr
       /\ EmitsStep
          => \E p \in Providers : \E h \in handling[p] :
                mu = p /\ ~EmptyAfterFilter(h.instances, inventory)]_vars

\* A GCP batch whose one instance is enrolled was answered "no new instances".
C4_Witness ==
    /\ last.batch.prov = "gcp"
    /\ Len(last.batch.instances) = 1
    /\ last.result = "errNoInstances"

\* the usage-event keys of a sequence of instances
KeysOf(prov, insts) == {<<prov, insts[i].id>> : i \in 1..Len(insts)}

\* the usage-event cache as the handler that now returns found it: only that
\* handler inserts keys of its batch while it runs
CachedBefore == usageEventCache \ last'.submitted

\* C5 as stated: once the handler has its client, Run is invoked once with
\* exactly the instances that are not in the inventory, and if Run succeeds
\* and none of their k event keys is cached, exactly k events are submitted.
C5_RunOnceAndKEvents ==
    [][(/\ Stepped /\ ~last'.batch.rotation /\ ReachedFilter(last')
        /\ ~EmptyAfterFilter(last'.batch, inventory))
       => LET want == NotEnrolled(last'.batch, inventory)
          IN  /\ Len(last'.run) = 1
              /\ last'.run[1].targets = want
              /\ (last'.result = "ok" /\ KeysOf(last'.batch.prov, want) \cap CachedBefore = {})
                    => Cardinality(last'.submitted) = Len(want)]_vars

\* C5, amended: ... exactly k events are submitted provided no submission
\* fails; a failed submission ends the emission, which has then made at least
\* one and at most k submissions.
C5_RunOnceAndKEventsUnlessSinkFails ==
    [][(/\ Stepped /\ ~last'.batch.rotation /\ ReachedFilter(last')
        /\ ~EmptyAfterFilter(last'.batch, inventory))
       => LET want == NotEnrolled(last'.batch, inventory)
          IN  /\ Len(last'.run) = 1
              /\ last'.run[1].targets = want
              /\ (last'.result = "ok" /\ KeysOf(last'.batch.prov, want) \cap CachedBefore = {})
                    => /\ ~last'.emitErr => Cardinality(last'.submitted) = Len(want)
                       /\ last'.emitErr => Cardinality(last'.submitted) \in 1..Len(want)
                       /\ last'.submitted \subseteq KeysOf(last'.batch.prov, want)]_vars

\* Two new instances, one enrolled neighbour aside: Run got both and two
\* events were submitted.
C5_Witness ==
    /\ ~last.batch.rotation
    /\ last.result = "ok" /\ ~last.emitErr
    /\ Len(last.run) = 1 /\ Len(last.run[1].targets) = 2
    /\ Cardinality(last.submitted) = 2
    /\ inventory # {}

\* C6: SubmitUsageEvent is called at most once per event key.
C6_AtMostOnceUsageEvent == \A k \in EventKeys : submitCount[k] <= 1

\* The calls of emitUsageEvents of the EC2 and the Azure goroutine, both with
\* the events i1 and i2, have returned, and the GCP goroutine's call with i1
\* is under way: the first two calls together submitted each event once, each
\* of them one.
C6_Witness ==
    /\ emitCall["ec2"].pc = "done" /\ emitCall["ec2"].submitted = {<<"ec2", "i1">>}
    /\ emitCall["azure"].pc = "done" /\ emitCall["azure"].submitted = {<<"ec2", "i2">>}
    /\ emitCall["gcp"].pc = "range" /\ emitCall["gcp"].events = {<<"ec2", "i1">>}
    /\ \A k \in LockKeys : submitCount[k] = 1

\* C7: when Run fails or the cloud client cannot be obtained, the handler
\* returns without a call of emitUsageEvents, so that it submits no usage
\* event and leaves the cache as it was: a step that changes the cache or
\* submits an event belongs to a handling whose Run has returned nil, by the
\* goroutine that holds s.mu.
C7_NoEventsOnFailure ==
    [][/\ (Stepped /\ last'.result \in {"runErr", "clientErr"})
          => last'.submitted = {} /\ ~last'.emitErr
       /\ EmitsStep
          => \E p \in Providers : \E h \in handling[p] : mu = p /\ h.result = "ok"
       /\ \A p \in Providers :
             emitCall'[p].pc = "lock" /\ emitCall[p].pc # "lock"
                => \E h \in handling'[p] : h.result = "ok"]_vars

\* Run failed on an instance whose event is not cached.
C7_Witness ==
    /\ last.result = "runErr"
    /\ Len(last.run) = 1
    /\ \E inst \in Targets(last) : EventKey(last.batch.prov, inst) \notin usageEventCache

\* the results with which a handler returns an error
HandlerErrors == {"clientErr", "infosErr", "runErr", "notFound", "errNoInstances"}

\* the dispatch loop of provider p can take a batch
CanHandle(p) ==
    CASE p = "ec2" -> ENABLED HandleEC2Discovery
      [] p = "azure" -> ENABLED HandleAzureDiscovery
      [] p = "gcp" -> ENABLED HandleGCPDiscovery

\* C8: a handler's error never ends a dispatch loop: a loop has returned only
\* if the context is cancelled, a handler that returns an error leaves its
\* loop in the select again, and a loop in its select takes the next batch the
\* watcher emits.
C8_ErrorsDoNotStopTheLoop ==
    /\ [](\A p \in Providers : pc[p] = "returned" => ctxDone)
    /\ [][\A p \in Providers :
            (handled'[p] # handled[p] /\ last'.result \in HandlerErrors)
                => pc'[p] = "select"]_vars
    /\ [](\A p \in Providers :
             (pc[p] = "select" /\ nBatches < MaxBatches) => CanHandle(p))

\* The installer failed on an EC2 batch, the context is live, and the EC2
\* loop is ready for the next batch.
C8_Witness ==
    /\ last.batch.prov = "ec2"
    /\ last.result = "runErr"
    /\ ~ctxDone
    /\ pc["ec2"] = "select"
    /\ CanHandle("ec2")

-----------------------------------------------------------------------------
(* Properties of the CA-rotation watcher *)

\* a node findUnrotatedEC2Nodes considers: an OpenSSH node with both AWS labels
RotationCandidate(n) ==
    n.subKind = "openssh" /\ HasLabel(n, "account") /\ HasLabel(n, "instance")

\* the most recent rotation timestamp of the two CAs: the latest of their
\* LastRotated and of the Started of those whose rotation is in progress
MostRecentRotation ==
    LET stamps == {cas[t].lastRotated : t \in CATypes}
                  \cup {cas[t].started : t \in {u \in CATypes : cas[u].state = "in_progress"}}
    IN CHOOSE m \in stamps : \A x \in stamps : x <= m

\* node n was rotated before some CA's LastRotated
OlderThanACA(n) == \E t \in CATypes : cas[t].lastRotated > n.lastRotated

\* the batch of the last tick is on its way to, or was sent on, the channel
TickBatchPushed == pcCA = "send" \/ caRotationCh = tick.nodes

\* C9 as stated: after a tick every node of the inventory older than a CA's
\* LastRotated is in the batch pushed on the channel, and every node rotated at
\* or after the most recent CA rotation is not.
C9_EveryOlderResourceIsPushed ==
    tick.result # "none" =>
        \A n \in inventory :
            /\ OlderThanACA(n) => (n \in tick.nodes /\ TickBatchPushed)
            /\ n.lastRotated >= MostRecentRotation => n \notin tick.nodes

\* C9 amended: after a tick on which both CAs could be read, every OpenSSH node
\* with both AWS labels that is older than a CA's LastRotated is in the batch
\* pushed on the channel, and no node rotated at or after the most recent CA
\* rotation is in that batch or in any batch sent before.
C9_OlderOpenSSHNodesArePushed ==
    tick.result \notin {"none", "caErr"} =>
        \A n \in inventory :
            /\ (RotationCandidate(n) /\ OlderThanACA(n)) =>
                  (tick.result = "found" /\ n \in tick.nodes /\ TickBatchPushed)
            /\ n.lastRotated >= MostRecentRotation =>
                  (n \notin tick.nodes /\ n \notin caRotationCh)

\* A batch was sent that holds an OpenSSH node older than a CA's LastRotated
\* and leaves out one rotated at the most recent rotation.
C9_Witness ==
    /\ tick.result = "found"
    /\ pcCA = "ticker"
    /\ caRotationCh = tick.nodes
    /\ \E n \in inventory, m \in inventory :
          /\ RotationCandidate(n) /\ OlderThanACA(n) /\ n \in caRotationCh
          /\ RotationCandidate(m) /\ m.lastRotated >= MostRecentRotation
          /\ m \notin caRotationCh

-----------------------------------------------------------------------------
(* Properties of the dynamic matcher updater *)

RECURSIVE DatabaseFetchersOf(_, _, _)
\* the database fetchers a list of matchers stands for: for each matcher in
\* turn, one for each of its database types
DatabaseFetchersOf(cloud, matchers, databaseTypes) ==
    IF matchers = <<>> THEN <<>>
    ELSE LET types == SelectSeq(Head(matchers).types, LAMBDA t : t \in databaseTypes)
         IN [i \in 1..Len(types) |->
                [cloud |-> cloud, type |-> types[i], region |-> Head(matchers).region]]
            \o DatabaseFetchersOf(cloud, Tail(matchers), databaseTypes)

\* the fetchers derived from the matcher set of a discovery config
DerivedFetchers(dc) ==
    DatabaseFetchersOf("aws", dc.aws, AWSDatabaseTypes)
    \o DatabaseFetchersOf("azure", dc.azure, AzureDatabaseTypes)

\* the last event was an upsert of a discovery config
UpsertHandled(ev) == ev.type = "put" /\ ev.resource.kind = "discovery_config"

\* building the fetchers of the last event's config failed
BuildFailed(ev) ==
    DatabaseFetchersFromMatchers(ev.resource.aws, ev.resource.azure, ev.failing).err

\* C10 as stated: after an upsert of a config of the service's group the table
\* holds, under the config's name, the fetchers derived from its matchers;
\* after an upsert with another group it holds no entry under that name.
C10_UpsertAlwaysInstalls ==
    UpsertHandled(lastEvent) =>
        IF lastEvent.resource.group = ServiceGroup
        THEN dynamicDatabaseFetchers[lastEvent.resource.name]
                = Entry(DerivedFetchers(lastEvent.resource))
        ELSE ~dynamicDatabaseFetchers[lastEvent.resource.name].present

\* C10 amended: after an upsert of a config of the service's group the table
\* holds, under the config's name, the fetchers derived from its matchers,
\* unless building them failed, and then the table is as it was before the
\* event; after an upsert with another group it holds no entry under that name.
C10_UpsertInstallsUnlessBuildFails ==
    [][(UpsertHandled(lastEvent') /\ pcDyn = "events") =>
          IF lastEvent'.resource.group # ServiceGroup
          THEN ~dynamicDatabaseFetchers'[lastEvent'.resource.name].present
          ELSE IF BuildFailed(lastEvent')
          THEN UNCHANGED dynamicDatabaseFetchers
          ELSE dynamicDatabaseFetchers'[lastEvent'.resource.name]
                  = Entry(DerivedFetchers(lastEvent'.resource))]_vars

\* Config dc1 was upserted in the service's group with database matchers, so
\* that the table holds its fetchers, while dc2, upserted before, is held too.
C10_Witness ==
    /\ UpsertHandled(lastEvent)
    /\ lastEvent.resource.group = ServiceGroup
    /\ lastEvent.resource.name = "dc1"
    /\ ~BuildFailed(lastEvent)
    /\ Len(DerivedFetchers(lastEvent.resource)) = 3
    /\ dynamicDatabaseFetchers["dc1"] = Entry(DerivedFetchers(lastEvent.resource))
    /\ dynamicDatabaseFetchers["dc2"].present

\* C11: after a delete event for a name is handled, the table has no entry
\* under that name and its entries under every other name are as they were;
\* when the name had no entry the table is as it was.
C11_DeleteRemovesOnlyThatEntry ==
    [][(pcDyn = "events" /\ pcDyn' = "events" /\ lastEvent'.type = "delete") =>
          /\ ~dynamicDatabaseFetchers'[lastEvent'.resource.name].present
          /\ \A n \in ConfigNames \ {lastEvent'.resource.name} :
                dynamicDatabaseFetchers'[n] = dynamicDatabaseFetchers[n]
          /\ ~dynamicDatabaseFetchers[lastEvent'.resource.name].present
                => UNCHANGED dynamicDatabaseFetchers]_vars

\* A delete of dc1 was handled and the table still holds the fetchers of dc2.
C11_Witness ==
    /\ lastEvent.type = "delete"
    /\ lastEvent.resource.name = "dc1"
    /\ pcDyn = "events"
    /\ ~dynamicDatabaseFetchers["dc1"].present
    /\ dynamicDatabaseFetchers["dc2"].present
    /\ Len(dynamicDatabaseFetchers["dc2"].fetchers) > 0

-----------------------------------------------------------------------------
(* Properties of New, Start, Stop and Wait *)

NoMatchersNoGroup(c) == IsEmpty(c) /\ c.group = ""
KubeWithoutGroup(c) == Len(c.kube) > 0 /\ c.group = ""

\* C12: New fails with a configuration error when the matcher set is empty
\* and no group is set, and when there is a Kubernetes matcher and no group;
\* it then returns no server, opens no subscription and starts no goroutine.
\* With a group and an empty matcher set neither check fails.
C12_NewRejectsBadConfig ==
    newState # "none" =>
        /\ NoMatchersNoGroup(cfg) => newState = "noMatchers"
        /\ KubeWithoutGroup(cfg) =>
              /\ newState \in ConfigErrors
              /\ (cfg.emitter /\ cfg.accessPoint) => newState = "kubeNoGroup"
        /\ (NoMatchersNoGroup(cfg) \/ KubeWithoutGroup(cfg)) =>
              /\ subscription = "none"
              /\ \A g \in Goroutines : launched[g] = 0
              /\ watchers = NoWatchers
        /\ (cfg.group # "" /\ IsEmpty(cfg)) => newState \notin {"noMatchers", "kubeNoGroup"}

\* New refused a configuration that has matchers, among them a Kubernetes
\* matcher, and no group.
C12_Witness ==
    /\ newState = "kubeNoGroup"
    /\ Len(cfg.aws) > 0
    /\ subscription = "none"
    /\ \A g \in Goroutines : launched[g] = 0

\* the results with which New ends before it opens the subscription
BeforeSubscription ==
    ConfigErrors \cup {"none", "cloudClientsErr", "kubeClientErr", "newWatcherErr"}

\* C13: with a group New opens the subscription and waits for its first
\* signal; it stores the subscription and starts the updater only when that
\* signal is the init event, and returns an error, with no updater started,
\* when it is Done or another event. Without a group there is no
\* subscription and no updater.
C13_NewWaitsForInit ==
    /\ cfg.group = "" =>
          subscription = "none" /\ launched["updater"] = 0 /\ ~dynamicMatcherWatcher
    /\ (cfg.group # "" /\ newState \notin BeforeSubscription) => subscription # "none"
    /\ newState = "waitInit" =>
          firstSignal = "none" /\ launched["updater"] = 0 /\ ~dynamicMatcherWatcher
    /\ firstSignal = "init" => dynamicMatcherWatcher /\ launched["updater"] = 1
    /\ firstSignal \notin {"none", "init"} =>
          /\ newState \in {DoneError, "unexpectedEvent"}
          /\ launched["updater"] = 0
          /\ ~dynamicMatcherWatcher
    /\ (dynamicMatcherWatcher \/ launched["updater"] > 0) => firstSignal = "init"

\* The first event was an upsert: New returned an error and started no
\* updater, the subscription being open.
C13_Witness ==
    /\ firstSignal = "put"
    /\ newState = "unexpectedEvent"
    /\ subscription = "open"
    /\ launched["updater"] = 0

\* the providers whose VM matcher type the configuration holds
HasType(matchers, type) ==
    \E i \in 1..Len(matchers) : \E j \in 1..Len(matchers[i].types) :
        matchers[i].types[j] = type

Configured(c) ==
    {p \in Providers : \/ p = "ec2" /\ HasType(c.aws, "ec2")
                       \/ p = "azure" /\ HasType(c.azure, "vm")
                       \/ p = "gcp" /\ HasType(c.gcp, "gce")}

\* C14: once Stop was called the context is cancelled, every configured
\* provider watcher is stopped and the subscription, if one was stored, is
\* closed; a watcher that is not configured stays nil and no subscription is
\* there to close when none was stored.
C14_StopStopsWhatExists ==
    stopCalled =>
        /\ ctxDone
        /\ ctxErr # "none"
        /\ \A p \in Providers :
              watchers[p] = IF p \in Configured(cfg) THEN "stopped" ELSE "nil"
        /\ subscription = IF dynamicMatcherWatcher THEN "closed" ELSE "none"

\* Stop was called on a server with the EC2 watcher and a subscription and
\* without the GCP watcher.
C14_Witness ==
    /\ stopCalled
    /\ watchers["ec2"] = "stopped"
    /\ watchers["gcp"] = "nil"
    /\ subscription = "closed"
    /\ ctxErr = "canceled"

\* C15: Wait has not returned while the context is live; when the context is
\* done a blocked Wait can return, and it returns nil exactly when the context
\* ended by cancellation and an error when it ended otherwise.
C15_WaitFollowsContext ==
    /\ waitResult \in {"nil", "err"} => ctxDone
    /\ waitResult = "nil" => ctxErr = "canceled"
    /\ waitResult = "err" => ctxErr \notin {"none", "canceled"}
    /\ (waitResult = "blocked" /\ ~ctxDone) => ~ENABLED WaitReturn
    /\ (waitResult = "blocked" /\ ctxDone) => ENABLED WaitReturn

\* The parent's deadline passed, Stop was called afterwards, and Wait
\* returned an error.
C15_Witness ==
    /\ waitResult = "err"
    /\ ctxErr = "deadline"
    /\ stopCalled

\* C16: when Start has returned, one dispatch goroutine was launched for each
\* configured provider and none for another, the reconciler goroutine exactly
\* when EC2 is configured, and the Kubernetes, Kubernetes-app and database
\* watchers were started in that order up to the first that failed, whose
\* error Start returned.
C16_StartLaunchesConfigured ==
    startResult # "none" =>
        /\ \A p \in Providers : launched[p] = IF p \in Configured(cfg) THEN 1 ELSE 0
        /\ launched["reconciler"] = IF "ec2" \in Configured(cfg) THEN 1 ELSE 0
        /\ Len(syncStarted) \in 1..Len(SyncWatchers)
        /\ syncStarted = SubSeq(SyncWatchers, 1, Len(syncStarted))
        /\ IF startResult = "ok" THEN syncStarted = SyncWatchers
           ELSE startResult = syncStarted[Len(syncStarted)]

\* Start launched the EC2 loop and the reconciler and no Azure loop, and
\* returned the error of the Kubernetes-app watchers without starting the
\* database watchers.
C16_Witness ==
    /\ startResult = "apps"
    /\ syncStarted = <<"kube", "apps">>
    /\ launched["ec2"] = 1
    /\ launched["reconciler"] = 1
    /\ launched["azure"] = 0

\* every goroutine the server started has returned
AllReturned ==
    /\ \A p \in Providers : pc[p] = "returned"
    /\ pcCA = "returned"
    /\ pcDyn = "returned"

\* C17 as stated: after Stop every goroutine the server started eventually
\* returns.
C17_StopEndsEveryGoroutine == stopCalled ~> AllReturned

-----------------------------------------------------------------------------
(* Properties of the order of handling *)

\* the numbers 1..n in order
UpTo(n) == [i \in 1..n |-> i]

\* C18: within a provider at most one batch is being handled at any moment,
\* the handlings that have returned are those of the first batches its watcher
\* sent, in the order sent, and the batch being handled is the next one sent:
\* handling of batch i has returned before handling of batch i+1 begins.
C18_HandledInEmissionOrder ==
    \A p \in Providers :
        /\ Cardinality(handling[p]) <= 1
        /\ handled[p] = UpTo(Len(handled[p]))
        /\ \A h \in handling[p] : h.n = Len(handled[p]) + 1
        /\ \A i \in 1..Len(instancesC[p]) :
              instancesC[p][i].n = Len(handled[p]) + Cardinality(handling[p]) + i

\* C18 happens, and nothing orders two providers: the EC2 loop is handling its
\* second batch while the Azure loop is still handling its first and the GCP
\* loop has taken none of the two batches its watcher sent
C18_Witness ==
    /\ handled["ec2"] = <<1>> /\ \E h \in handling["ec2"] : h.n = 2
    /\ handled["azure"] = <<>> /\ \E h \in handling["azure"] : h.n = 1
    /\ handled["gcp"] = <<>> /\ handling["gcp"] = {} /\ Len(instancesC["gcp"]) = 2

-----------------------------------------------------------------------------
(* Properties of splitMatchers *)

\* how many times t occurs in the sequence ss
Count(ss, t) == Cardinality({i \in 1..Len(ss) : ss[i] = t})

\* the entries of a returned list that are copies of the matcher m
CopiesOf(list, m) == SelectSeq(list, LAMBDA c : c.region = m.region)

\* the types of the copy of m in a returned list, none when it has no copy
CopyTypes(list, m) ==
    IF CopiesOf(list, m) = <<>> THEN <<>> ELSE CopiesOf(list, m)[1].types

\* C19: once splitMatchers(M, P) has returned, every type in 'split' satisfies
\* P and no type in 'other' does; for each matcher of M the types of its copy
\* in 'split' followed by those of its copy in 'other' hold every type exactly
\* as often as the matcher does; no entry of either list has an empty type
\* list, each entry is the copy of a matcher of M and no matcher has two
\* copies on one side.
C19_SplitMatchersPartitions ==
    splitResult.returned =>
        LET M == splitCall.matchers
            P == splitCall.accepted
            split == splitResult.split
            other == splitResult.other
        IN  /\ \A i \in 1..Len(split) : \A j \in 1..Len(split[i].types) :
                  split[i].types[j] \in P
            /\ \A i \in 1..Len(other) : \A j \in 1..Len(other[i].types) :
                  other[i].types[j] \notin P
            /\ \A i \in 1..Len(M) :
                  LET both == CopyTypes(split, M[i]) \o CopyTypes(other, M[i])
                  IN  /\ Len(both) = Len(M[i].types)
                      /\ \A t \in SplitTypes : Count(both, t) = Count(M[i].types, t)
                      /\ Len(CopiesOf(split, M[i])) <= 1
                      /\ Len(CopiesOf(other, M[i])) <= 1
            /\ \A i \in 1..Len(split) :
                  /\ Len(split[i].types) > 0
                  /\ \E k \in 1..Len(M) : split[i].region = M[k].region
            /\ \A i \in 1..Len(other) :
                  /\ Len(other[i].types) > 0
                  /\ \E k \in 1..Len(M) : other[i].region = M[k].region

\* C19 happens: a list of a matcher with a type on each side and a matcher
\* with the same rejected type twice has been split, and the second matcher
\* has no entry in 'split'
C19_Witness ==
    /\ splitResult.returned
    /\ splitCall.accepted = {"rds"}
    /\ splitCall.matchers = <<Matcher(<<"ec2", "rds">>, "r1"), Matcher(<<"ec2", "ec2">>, "r2")>>
    /\ splitResult.split = <<Matcher(<<"rds">>, "r1")>>
    /\ splitResult.other = <<Matcher(<<"ec2">>, "r1"), Matcher(<<"ec2", "ec2">>, "r2")>>

-----------------------------------------------------------------------------
(* Properties of the logging of handling errors *)

\* the most recent handling found its filtered batch empty
FilteredBatchEmpty == last.result \in {"notFound", "errNoInstances"}

\* the most recent handling failed to obtain the cloud client or in the
\* installer's Run
ClientOrInstallerFailed == last.result \in {"clientErr", "runErr"}

\* C20 as stated: in every provider's loop the handling error is logged as
\* 'all instances already enrolled' only when the filtered batch was empty,
\* and never when obtaining the cloud client or the installer failed, whatever
\* the kind of that failure.
C20_EnrolledOnlyWhenBatchEmpty ==
    /\ logged = "debugAlreadyEnrolled" => FilteredBatchEmpty
    /\ ClientOrInstallerFailed => logged # "debugAlreadyEnrolled"

-----------------------------------------------------------------------------
(* Properties of the usage events of enrolled instances *)

\* the instances of the most recent batch whose usage event was submitted
SubmittedInstances(h) ==
    {inst \in Range(h.batch.instances) : EventKey(h.batch.prov, inst) \in h.submitted}

\* C21 as stated: for every batch handled, rotation batches included, no usage
\* event is submitted for an instance an inventory node already holds.
C21_NoEventForEnrolledInstance ==
    \A inst \in SubmittedInstances(last) : ~Enrolled(last.batch, inst, inventory)

\* C21, amended: a batch that is not a rotation batch submits no usage event
\* for an instance an inventory node holds; a rotation batch is not filtered,
\* and the events submitted for any batch are those of its instances, enrolled
\* or not, whose keys were not in the cache.
C21_NoEventForEnrolledUnlessRotation ==
    [][Stepped
       => /\ ~last'.batch.rotation
                => \A inst \in SubmittedInstances(last') :
                       ~Enrolled(last'.batch, inst, inventory)
          /\ last'.submitted \subseteq MakeEvents(last'.batch)
          /\ \A k \in last'.submitted : submitCount[k] = 1]_vars

\* C21 happens: a rotation batch went to Run and the usage event of an
\* instance of it that an inventory node holds was submitted
C21_Witness ==
    /\ last.batch.rotation
    /\ last.result = "ok"
    /\ \E inst \in SubmittedInstances(last) : Enrolled(last.batch, inst, inventory)

-----------------------------------------------------------------------------
(* Properties of the most recent CA rotation *)

\* the greatest element of a non-empty set of instants
Latest(S) == CHOOSE t \in S : \A u \in S : u <= t

\* a failing GetCertAuthority call makes getMostRecentRotationForCAs return an
\* error, and a tick that ended so has nothing to send
ErrorWhenACAFails ==
    /\ \A failing \in CATypes : GetMostRecentRotationForCAs(cas, failing).err
    /\ ~GetMostRecentRotationForCAs(cas, NoCAFailure).err
    /\ (caRotationRead.called /\ caRotationRead.err)
          => tick.result = "caErr" /\ tick.nodes = {} /\ pcCA # "send"

\* C22 as stated: the timestamp getMostRecentRotationForCAs returns is the
\* maximum over both CAs of the 'rotation started' and the 'last rotated'
\* timestamps, and when reading a CA fails an error is returned and nothing
\* is pushed on that tick.
C22_MostRecentIsMaxOfAll ==
    /\ (caRotationRead.called /\ ~caRotationRead.err)
          => caRotationRead.time =
                 Latest({cas[t].started : t \in CATypes}
                        \cup {cas[t].lastRotated : t \in CATypes})
    /\ ErrorWhenACAFails

\* C22, amended: the timestamp is the maximum over both CAs of the 'last
\* rotated' timestamps and of the 'rotation started' timestamps of the CAs
\* whose rotation is in progress (the zero time when there is none); when
\* reading a CA fails an error is returned and nothing is pushed on that tick.
C22_MostRecentCountsStartedInProgress ==
    /\ (caRotationRead.called /\ ~caRotationRead.err)
          => caRotationRead.time =
                 Latest({0}
                        \cup {cas[t].started : t \in {u \in CATypes :
                                                        cas[u].state = "in_progress"}}
                        \cup {cas[t].lastRotated : t \in CATypes})
    /\ caRotationRead.called => ErrorWhenACAFails

\* C22 happens: a tick read both CAs, one of them on standby with a rotation
\* started after every 'last rotated', and returned an earlier instant
C22_Witness ==
    /\ caRotationRead.called /\ ~caRotationRead.err
    /\ \E t \in CATypes : /\ cas[t].state = "standby"
                          /\ cas[t].started > caRotationRead.time
    /\ caRotationRead.time > 0

-----------------------------------------------------------------------------
(* Properties of the sends on the CA-rotation channel *)

\* the nodes findUnrotatedEC2Nodes is to find: the OpenSSH nodes with both AWS
\* labels that the most recent CA rotation is after
Unrotated ==
    {n \in inventory : RotationCandidate(n) /\ MostRecentRotation > n.lastRotated}

\* C23: the watcher goes to its send only from a tick that found nodes, with
\* all of them as the batch; a tick that finds none, or whose lookup fails,
\* sends nothing and leaves the watcher at its ticker; the channel gets a
\* batch only by that send, once per tick and never an empty one; and the
\* watcher returns only when the context is done.
C23_OnlyFoundBatchesAreSent ==
    [][/\ (pcCA # "send" /\ pcCA' = "send")
             => /\ pcCA = "ticker"
                /\ tick'.result = "found"
                /\ tick'.nodes # {}
                /\ tick'.nodes = Unrotated
       /\ (tick' # tick /\ tick'.result \in {"notFound", "caErr"})
             => /\ pcCA' = "ticker"
                /\ tick'.nodes = {}
                /\ UNCHANGED caRotationCh
       /\ caRotationCh' # caRotationCh => pcCA = "send"
       /\ (pcCA = "send" /\ pcCA' # "send")
             => /\ pcCA' = "ticker"
                /\ tick.nodes # {}
                /\ caRotationCh' = tick.nodes
                /\ UNCHANGED tick
       /\ (pcCA # "returned" /\ pcCA' = "returned") => ctxDone]_vars

\* C23 happens: one tick's batch was sent, a later tick's lookup failed and
\* sent nothing, and the watcher is at its ticker again
C23_Witness ==
    /\ caRotationCh # {}
    /\ caRotationCh = Unrotated
    /\ tick.result = "caErr"
    /\ pcCA = "ticker"
    /\ ~ctxDone

-----------------------------------------------------------------------------
(* Properties of the usage-event cache over time *)

\* C24: no step of the server removes a key from the usage-event cache: the
\* cache after a step holds every key it held before, so the cache of every
\* reachable state is a superset of the cache of every earlier state.
C24_CacheNeverShrinks == [][usageEventCache \subseteq usageEventCache']_vars

\* C24 happens: the cache holds keys from an earlier batch, and the most recent
\* handling, whose submission failed at the sink, cached what it visited
C24_Witness ==
    /\ nBatches = 2
    /\ last.emitErr
    /\ last.submitted # {}
    /\ last.submitted \subseteq usageEventCache
    /\ usageEventCache \ MakeEvents(last.batch) # {}

-----------------------------------------------------------------------------
(* Properties of the events the updater ignores *)

\* the step handles an event that is neither an upsert nor a delete
HandlesUnknownEvent ==
    /\ pcDyn = "events"
    /\ lastEvent' # lastEvent
    /\ lastEvent'.type \notin {"put", "delete"}

\* C25: handling an event of unknown kind leaves the dynamic fetcher table as
\* it was and the updater in its event loop, where the next event, an upsert
\* or a delete included, can be handled.
C25_UnknownEventIsIgnored ==
    /\ [][HandlesUnknownEvent
            => UNCHANGED dynamicDatabaseFetchers /\ pcDyn' = "events"]_vars
    /\ [](pcDyn = "events" => ENABLED HandleEvent)

\* C25 happens: an event of unknown kind was handled with an entry in the
\* table, and the updater is in its event loop
C25_Witness ==
    /\ lastEvent.type = "init"
    /\ pcDyn = "events"
    /\ \E n \in ConfigNames : dynamicDatabaseFetchers[n] # NoEntry

-----------------------------------------------------------------------------
(* Properties of the end of the updater *)

\* C26: once the subscription's done channel has fired with the updater in
\* its event loop, the updater eventually returns; a returned updater stays
\* returned and the dynamic fetcher table keeps the contents it had then.
C26_DoneEndsTheUpdater ==
    /\ (DoneFired /\ pcDyn = "events") ~> pcDyn = "returned"
    /\ [][pcDyn = "returned"
            => pcDyn' = "returned" /\ UNCHANGED dynamicDatabaseFetchers]_vars

\* C26 happens: the subscription failed, and the updater returned on it
\* leaving an entry in the table
C26_Witness ==
    /\ subscription = "failed"
    /\ pcDyn = "returned"
    /\ lastEvent.type \in {"put", "delete", "init"}
    /\ ~(lastEvent.type = "put" /\ lastEvent.resource.kind # "discovery_config")
    /\ \E n \in ConfigNames : dynamicDatabaseFetchers[n] # NoEntry


-----------------------------------------------------------------------------
(* C27: the initial scan of the updater *)

\* the listing is over and the event loop has processed no event yet
FirstEventPending == pcDyn = "events" /\ lastEvent = NoEvent

\* C27 as stated: no event is processed while the listing runs, and when the
\* first event is about to be processed the table holds an entry for every
\* config of the service's group on every page listed, and for no other name.
C27_ScanInstallsEveryMatchingConfig ==
    /\ pcDyn = "list" => lastEvent = NoEvent
    /\ FirstEventPending =>
          \A n \in ConfigNames :
              dynamicDatabaseFetchers[n].present <=> occurrence[n] \in ServiceGroupOccurrences

\* C27 amended: no event is processed while the listing runs, and when the
\* first event is about to be processed the table holds an entry for exactly
\* the names of the listed configs of the service's group whose fetchers
\* could be built; a config whose upsert failed is logged and left out.
C27_ScanInstallsEveryBuiltMatchingConfig ==
    /\ pcDyn = "list" => lastEvent = NoEvent
    /\ FirstEventPending =>
          \A n \in ConfigNames :
              dynamicDatabaseFetchers[n].present <=> occurrence[n] = "group"

\* The listing returned dc1 and dc2 in the service's group; the fetchers of
\* dc1 could not be built, those of dc2 could, and the event loop starts with
\* an entry for dc2 only.
C27_Witness ==
    /\ FirstEventPending
    /\ occurrence = [n \in ConfigNames |-> IF n = "dc1" THEN "groupErr" ELSE "group"]
    /\ dynamicDatabaseFetchers["dc2"].present
    /\ ~dynamicDatabaseFetchers["dc1"].present


-----------------------------------------------------------------------------
(* C28: the channel, the reconciler and their goroutines exist with EC2 only *)

\* the AWS matchers of the configuration hold a matcher with the EC2 type
HasEC2Matcher == HasType(cfg.aws, "ec2")

\* once New has succeeded, s.caRotationCh and s.reconciler are allocated if
\* and only if the AWS matchers hold a matcher with the EC2 type
AllocatedIffEC2Matcher ==
    newState = "ok" =>
        /\ allocated.caRotationCh <=> HasEC2Matcher
        /\ allocated.reconciler <=> HasEC2Matcher

\* the CA-rotation watcher and the reconciler goroutine are started only when
\* an EC2 watcher exists, and a configuration with no EC2 matcher (Azure
\* only, GCP only, AWS databases only) never starts them
GoroutinesOnlyWithEC2Watcher ==
    /\ \A g \in {"ca", "reconciler"} :
          launched[g] > 0 =>
              /\ watchers["ec2"] # "nil"
              /\ allocated.caRotationCh /\ allocated.reconciler
              /\ HasEC2Matcher
    /\ ~HasEC2Matcher => launched["ca"] = 0 /\ launched["reconciler"] = 0

\* C28: once New has succeeded, s.caRotationCh and s.reconciler are allocated
\* if and only if the AWS matchers hold a matcher with the EC2 type; the
\* CA-rotation watcher and the reconciler goroutine are started only when an
\* EC2 watcher exists, and never under a configuration with no EC2 matcher.
C28_ChannelAndReconcilerOnlyWithEC2 ==
    AllocatedIffEC2Matcher /\ GoroutinesOnlyWithEC2Watcher

\* New succeeded on a configuration with an EC2 matcher and Start was called:
\* both fields are allocated, the reconciler runs and the EC2 dispatch
\* goroutine has started the CA-rotation watcher.
C28_Witness ==
    /\ newState = "ok"
    /\ HasEC2Matcher
    /\ allocated = [caRotationCh |-> TRUE, reconciler |-> TRUE]
    /\ launched["reconciler"] = 1
    /\ launched["ca"] = 1


-----------------------------------------------------------------------------
(* C29: lock discipline *)

\* a provider goroutine is between s.mu.Lock() and s.mu.Unlock()
InEmitSection(p) == emitCall[p].pc \in {"range", "insert", "submit", "unlock"}

\* the updater is between s.muDynamicFetchers.Lock() and Unlock()
InUpdateSection == update.pc \in {"write", "unlock"}

\* C29: every change of the fetcher table is made by the updater while it
\* holds the write lock, every read and write of the usage-event cache is
\* made by a goroutine that holds s.mu, no two goroutines are inside
\* emitUsageEvents' critical section at once, and the check of the cache and
\* the insert that follows are atomic: the key a goroutine is about to insert
\* is still absent, and no key is submitted twice.
C29_LockDiscipline ==
    /\ [](\A p, q \in Providers : InEmitSection(p) /\ InEmitSection(q) => p = q)
    /\ [](\A p \in Providers : InEmitSection(p) <=> mu = p)
    /\ [](InUpdateSection <=> muDynamicFetchers = "updater")
    /\ [](\A p \in Providers :
             emitCall[p].pc = "insert" => emitCall[p].key \notin usageEventCache)
    /\ [](\A k \in EventKeys : submitCount[k] <= 1)
    /\ [][usageEventCache' # usageEventCache =>
             \E p \in Providers : mu = p /\ emitCall[p].pc = "insert"
                                    /\ emitCall'[p] # emitCall[p]]_vars
    /\ [][dynamicDatabaseFetchers' # dynamicDatabaseFetchers =>
             muDynamicFetchers = "updater" /\ update.pc = "write"]_vars

\* The EC2 goroutine holds s.mu and is about to insert key i1, the Azure
\* goroutine waits in Lock with a map that holds i1 too, the GCP goroutine's
\* call has already submitted i2, and the updater holds the write lock,
\* about to replace the entry of dc1.
C29_Witness ==
    /\ mu = "ec2"
    /\ emitCall["ec2"].pc = "insert" /\ emitCall["ec2"].key = <<"ec2", "i1">>
    /\ emitCall["azure"].pc = "lock" /\ <<"ec2", "i1">> \in emitCall["azure"].events
    /\ submitCount[<<"ec2", "i2">>] = 1
    /\ muDynamicFetchers = "updater" /\ update.pc = "write"
    /\ lastEvent.type = "put" /\ lastEvent.resource.group = ServiceGroup
    /\ dynamicDatabaseFetchers["dc1"].present


-----------------------------------------------------------------------------
(* C30: what splitMatchers leaves as it is *)

\* the positions in the input list M of the matchers that agree with the
\* output matcher e on every field but the types
SourcesOf(M, e) == {k \in 1..Len(M) : e = [M[k] EXCEPT !.types = e.types]}

\* C30: once splitMatchers(M, P) has returned, in each of the two output
\* lists every entry equals one input matcher on every field but the types,
\* the entries follow the order of the input matchers they were copied from,
\* so that no input matcher has two entries in one list, and an input
\* matcher with no type has an entry in neither list.
C30_SplitMatchersKeepsFieldsAndOrder ==
    splitResult.returned =>
        LET M == splitCall.matchers
        IN  \A out \in {splitResult.split, splitResult.other} :
               /\ \A i \in 1..Len(out) : Cardinality(SourcesOf(M, out[i])) = 1
               /\ \A i, j \in 1..Len(out) :
                     i < j =>
                        \A k \in SourcesOf(M, out[i]) : \A l \in SourcesOf(M, out[j]) :
                            k < l
               /\ \A k \in 1..Len(M) :
                     M[k].types = <<>> =>
                        \A i \in 1..Len(out) : out[i].region # M[k].region

\* C30 happens: both matchers of the list have an accepted type, and 'split'
\* holds their copies in the order of the list, each with its own region,
\* while 'other' holds the first one's copy only.
C30_Witness ==
    /\ splitResult.returned
    /\ splitCall.accepted = {"rds"}
    /\ splitCall.matchers = <<Matcher(<<"ec2", "rds">>, "r1"), Matcher(<<"rds">>, "r2")>>
    /\ splitResult.split = <<Matcher(<<"rds">>, "r1"), Matcher(<<"rds">>, "r2")>>
    /\ splitResult.other = <<Matcher(<<"ec2">>, "r1")>>


-----------------------------------------------------------------------------
(* C31: the poll interval of the provider watchers *)

\* C31 as stated: once New has succeeded, c.PollInterval is the interval the
\* configuration was given, or 5 minutes if it was given none, and every
\* provider watcher New created (EC2, Azure, GCP) was created with that
\* interval.
C31_EveryWatcherPollsAtPollInterval ==
    newState = "ok" =>
        /\ poll.interval = IF poll.given = 0 THEN DefaultPollInterval ELSE poll.given
        /\ \A p \in Providers :
              watchers[p] # "nil" => poll.watchers[p] = WithPollInterval(poll.interval)


-----------------------------------------------------------------------------
(* C32: the dispatch loops after Stop *)

\* the numbers of the batches being handled
Taken(hs) == {h.n : h \in hs}

\* C32 as stated: after Stop has returned no dispatch loop begins handling a
\* further batch, even if one was on the watcher's channel at that moment.
C32_NoHandlingBeginsAfterStop == lateHandling = {}

\* C32 amended: after Stop has returned a dispatch loop at its select takes
\* any case that is ready. It may take the oldest batch its watcher left on
\* the channel, and then handles it in full; no handling begins in any other
\* way. When the watcher has closed the channel and no batch is left, it may
\* take the zero value of the closed channel, and then panics before the
\* handler is called: nothing is handled, and the panic ends the process. Or
\* it takes the cancelled context, and then has returned for good.
C32_AfterStopOnlyPendingBatches ==
    /\ [][\A p \in Providers :
             (stopCalled /\ ~(Taken(handling'[p]) \subseteq Taken(handling[p]))) =>
                 /\ pc[p] = "select"
                 /\ instancesC[p] # <<>>
                 /\ handling'[p] = handling[p] \cup {NewHandling(Head(instancesC[p]).n,
                                                                Head(instancesC[p]).instances)}
                 /\ instancesC'[p] = Tail(instancesC[p])]_vars
    /\ [][\A p \in Providers :
             (pc'[p] = "panicked" /\ pc[p] # "panicked") =>
                 /\ pc[p] = "select"
                 /\ stopCalled /\ closed[p] /\ instancesC[p] = <<>>
                 /\ handling' = handling
                 /\ UNCHANGED <<last, submitCount, usageEventCache, emitCall>>]_vars
    /\ [][\A p \in Providers :
             pc[p] \in {"returned", "panicked"} =>
                 /\ pc'[p] = pc[p]
                 /\ handling'[p] = handling[p]
                 /\ instancesC'[p] = instancesC[p]
                 /\ emitCall'[p] = emitCall[p]]_vars
    /\ [](\A p \in Providers :
             /\ pc[p] = "returned" => ctxDone /\ handling[p] = {}
             /\ pc[p] = "panicked" => ctxDone /\ handling[p] = {})

\* C32: Stop has returned with a batch pending for EC2 and for Azure. The EC2
\* loop's select took its batch, the handler called the installer and
\* submitted a usage event, and back at the select the loop took the zero
\* value of the channel its watcher had closed and panicked; the Azure
\* loop's select took the cancelled context and returned, leaving its batch.
C32_Witness ==
    /\ stopCalled
    /\ "ec2" \in lateHandling /\ sent["ec2"] = 1
    /\ last.batch.prov = "ec2" /\ last.run # <<>> /\ last.submitted # {}
    /\ pc["ec2"] = "panicked" /\ closed["ec2"]
    /\ pc["azure"] = "returned" /\ instancesC["azure"] # <<>>
    /\ "azure" \notin lateHandling


-----------------------------------------------------------------------------
(* C33: a failed rebuild keeps the old entry *)

\* the step handles an upsert of a config of the service's group
MatchingUpsertStep ==
    /\ pcDyn = "events"
    /\ lastEvent' # lastEvent
    /\ UpsertHandled(lastEvent')
    /\ lastEvent'.resource.group = ServiceGroup

\* C33: when the fetchers of an upserted config of the service's group cannot
\* be built the table is left exactly as it was and the loop goes on to the
\* next event; when they can, the entry of that name, and nothing else, is
\* replaced as a whole by the fetchers derived from the new matchers; in no
\* state does an entry hold anything but the fetchers derived from one config.
C33_FailedRebuildKeepsOldEntry ==
    /\ [][(MatchingUpsertStep /\ BuildFailed(lastEvent')) =>
             /\ UNCHANGED dynamicDatabaseFetchers
             /\ pcDyn' = "events"]_vars
    /\ [][(MatchingUpsertStep /\ ~BuildFailed(lastEvent')) =>
             /\ dynamicDatabaseFetchers' =
                   [dynamicDatabaseFetchers EXCEPT
                      ![lastEvent'.resource.name] =
                          Entry(DerivedFetchers(lastEvent'.resource))]
             /\ pcDyn' = "events"]_vars
    /\ [](\A n \in ConfigNames :
             dynamicDatabaseFetchers[n].present =>
                \E dc \in DiscoveryConfigs :
                    /\ dc.name = n /\ dc.group = ServiceGroup
                    /\ dynamicDatabaseFetchers[n] = Entry(DerivedFetchers(dc)))

\* The fetchers of the upserted dc1 could not be built: the entry of dc1,
\* three fetchers built from an older matcher set, is still there, and the
\* loop is at its select.
C33_Witness ==
    /\ pcDyn = "events"
    /\ UpsertHandled(lastEvent)
    /\ lastEvent.resource.group = ServiceGroup
    /\ lastEvent.resource.name = "dc1"
    /\ BuildFailed(lastEvent)
    /\ dynamicDatabaseFetchers["dc1"].present
    /\ Len(dynamicDatabaseFetchers["dc1"].fetchers) = 3
    /\ Len(DerivedFetchers(lastEvent.resource)) = 1

-----------------------------------------------------------------------------
(* C35: emitUsageEvents when a submission fails *)

\* the call of goroutine p has returned from the loop on a failed submission:
\* only then is it at its Unlock with events it has not visited
FailedEmit(p) == emitCall[p].pc = "unlock" /\ emitCall[p].events # {}

\* C35: a key is put in the usage-event cache before its submission is
\* attempted, and stays there whether SubmitUsageEvent succeeds or not; a failed submission ends the
\* call with the events not yet visited left as they were, neither cached nor
\* submitted by this call; a cached key is never submitted again, and a key
\* that is not cached is inserted and submitted by the call that visits it.
C35_FailedSubmissionStaysCached ==
    [][\A p \in Providers :
          /\ emitCall[p].pc = "insert" /\ emitCall'[p] # emitCall[p] =>
                LET key == emitCall[p].key
                IN  /\ key \notin usageEventCache
                    /\ usageEventCache' = usageEventCache \cup {key}
                    /\ submitCount' = submitCount
                    /\ emitCall'[p] = [emitCall[p] EXCEPT !.pc = "submit"]
          /\ emitCall[p].pc = "submit" /\ emitCall'[p] # emitCall[p] =>
                LET key == emitCall[p].key
                IN  /\ key \in usageEventCache
                    /\ usageEventCache' = usageEventCache
                    /\ submitCount' = [submitCount EXCEPT ![key] = @ + 1]
                    /\ emitCall'[p].events = emitCall[p].events
                    /\ emitCall'[p].pc = IF emitCall'[p].err THEN "unlock" ELSE "range"
          /\ FailedEmit(p) /\ emitCall'[p] # emitCall[p] =>
                /\ emitCall'[p] = [emitCall[p] EXCEPT !.pc = "done"]
                /\ usageEventCache' = usageEventCache
                /\ submitCount' = submitCount
          /\ emitCall[p].pc = "range" /\ emitCall'[p] # emitCall[p] =>
                /\ usageEventCache' = usageEventCache
                /\ submitCount' = submitCount
                /\ emitCall'[p].pc = "insert" =>
                      emitCall'[p].key \in emitCall[p].events \ usageEventCache
                /\ emitCall'[p].pc = "range" =>
                      emitCall[p].events \ emitCall'[p].events \subseteq usageEventCache
          /\ \A k \in EventKeys :
                submitCount'[k] # submitCount[k] =>
                    /\ submitCount[k] = 0
                    /\ \E q \in Providers : emitCall[q].pc = "submit" /\ emitCall[q].key = k]_vars

\* C35: the EC2 goroutine's call ended on the failed submission of i1 with i2
\* not visited: i1 is cached and was submitted once, i2 is neither cached nor
\* submitted
C35_Witness ==
    /\ FailedEmit("ec2")
    /\ emitCall["ec2"].events = {<<"ec2", "i2">>}
    /\ usageEventCache = {<<"ec2", "i1">>}
    /\ submitCount[<<"ec2", "i1">>] = 1
    /\ submitCount[<<"ec2", "i2">>] = 0

\* C35: in a later call the event left unvisited is about to be inserted and
\* submitted, the key whose submission failed being skipped
C35_WitnessLaterCall ==
    /\ emitCall["azure"].pc = "insert" /\ emitCall["azure"].key = <<"ec2", "i2">>
    /\ usageEventCache = {<<"ec2", "i1">>}
    /\ emitCall["ec2"].pc = "done" /\ emitCall["ec2"].err

-----------------------------------------------------------------------------
(* C36: New failing after the updater was started *)

\* New has returned an error
NewFailed == newState \notin {"none", "waitInit", "ok"}

\* C36 as stated: when New has returned an error after startDynamicMatchersWatcher
\* opened the subscription and started the updater goroutine, the subscription
\* is closed, which is what makes the updater return.
C36_FailedNewClosesSubscription ==
    (NewFailed /\ launched["updater"] > 0) => subscription = "closed"

-----------------------------------------------------------------------------
(* C37: the updater stopping while the subscription lives *)

\* the step is the event loop receiving an upsert whose resource is not a
\* DiscoveryConfig
UnexpectedResourceStep ==
    /\ pcDyn = "events"
    /\ lastEvent' # lastEvent
    /\ lastEvent'.type = "put"
    /\ lastEvent'.resource.kind # "discovery_config"

\* C37: a failed page of the initial listing ends the updater before any
\* event was processed, the table keeping what the earlier pages put in it;
\* an upsert whose resource is not a DiscoveryConfig ends it too; these are
\* the only returns taken while the subscription has not ended; and once the
\* updater has returned no event is processed and the table never changes.
C37_UpdaterStopsForGood ==
    /\ [][pcDyn = "list" /\ pcDyn' = "returned" =>
             /\ lastEvent = NoEvent /\ lastEvent' = NoEvent
             /\ dynamicDatabaseFetchers' = dynamicDatabaseFetchers]_vars
    /\ [][UnexpectedResourceStep =>
             pcDyn' = "returned" /\ dynamicDatabaseFetchers' = dynamicDatabaseFetchers]_vars
    /\ [][pcDyn # "returned" /\ pcDyn' = "returned" /\ ~DoneFired =>
             pcDyn = "list" \/ UnexpectedResourceStep]_vars
    /\ [][pcDyn = "returned" =>
             /\ pcDyn' = "returned"
             /\ lastEvent' = lastEvent
             /\ dynamicDatabaseFetchers' = dynamicDatabaseFetchers]_vars

\* C37: the listing failed on a later page, the subscription still open: the
\* updater has returned with dc1, built from an earlier page, in the table
\* and no event processed
C37_Witness ==
    /\ pcDyn = "returned"
    /\ subscription = "open"
    /\ lastEvent = NoEvent
    /\ dynamicDatabaseFetchers["dc1"].present

\* C37: the updater has returned on an upsert of a node resource, the
\* subscription still open, with an entry in the table
C37_WitnessUnexpectedResource ==
    /\ pcDyn = "returned"
    /\ subscription = "open"
    /\ lastEvent.type = "put" /\ lastEvent.resource.kind = "node"
    /\ dynamicDatabaseFetchers["dc1"].present

-----------------------------------------------------------------------------
(* C38: the label reconciler's queue in handleEC2Instances *)

\* C38: after a handling of an EC2 batch, the server infos queued to the
\* reconciler are those of all the instances of the batch as it was received,
\* enrolled ones included and also when the filter left no instance and the
\* installer was not invoked; when the SSM client or the server infos could
\* not be obtained, nothing was queued and the installer was not invoked.
C38_AllServerInfosQueuedBeforeFilter ==
    last.batch.prov = "ec2" =>
        IF last.result \in {"clientErr", "infosErr"}
        THEN last.queued = <<>> /\ last.run = <<>>
        ELSE /\ last.queued = last.batch.instances
             /\ last.result = "notFound" => last.run = <<>>

\* C38: an EC2 batch whose instances are all in the inventory was handled:
\* the installer was not invoked and the infos of the enrolled instances were
\* queued
C38_Witness ==
    /\ last.batch.prov = "ec2" /\ ~last.batch.rotation
    /\ last.result = "notFound"
    /\ last.run = <<>>
    /\ last.queued # <<>> /\ last.queued = last.batch.instances

\* C38: an EC2 batch for which instances.ServerInfos() failed: nothing queued
C38_WitnessNoInfos ==
    /\ last.batch.prov = "ec2" /\ last.batch.instances # <<>>
    /\ last.result = "infosErr"
    /\ last.queued = <<>> /\ last.run = <<>>

-----------------------------------------------------------------------------
(* C39: the fetcher table holds configs of the service's group only *)

\* no matcher of the config is a database matcher
NoDatabaseMatchers(dc) ==
    /\ Len(SplitMatchers(dc.aws, AWSDatabaseTypes).split) = 0
    /\ Len(SplitMatchers(dc.azure, AzureDatabaseTypes).split) = 0

\* C39: while the updater runs, every name in the dynamic fetcher table is
\* the name of a config whose most recent processed occurrence, in the
\* listing or in an upsert event, had the service's discovery group, with no
\* delete event processed for it since; and processing a config of the
\* service's group that has no database matcher, listed or upserted, leaves
\* an entry with an empty fetcher list.
C39_TableHoldsOnlyServiceGroupConfigs ==
    /\ [](\A n \in ConfigNames :
             dynamicDatabaseFetchers[n].present =>
                 occurrence[n] \in ServiceGroupOccurrences)
    /\ [][/\ pcDyn = "events" /\ lastEvent' # lastEvent
          /\ lastEvent'.type = "put" /\ lastEvent'.resource.kind = "discovery_config"
          /\ lastEvent'.resource.group = ServiceGroup
          /\ NoDatabaseMatchers(lastEvent'.resource)
          => dynamicDatabaseFetchers'[lastEvent'.resource.name] = Entry(<<>>)]_vars
    /\ [][/\ pcDyn = "list" /\ page.dcs # <<>> /\ page' # page
          /\ Head(page.dcs).group = ServiceGroup
          /\ NoDatabaseMatchers(Head(page.dcs))
          => dynamicDatabaseFetchers'[Head(page.dcs).name] = Entry(<<>>)]_vars

\* C39: the last event was an upsert of dc1 with another group, which has no
\* entry, while dc2, last processed with the service's group and no database
\* matcher, has an entry with no fetcher
C39_Witness ==
    /\ pcDyn = "events"
    /\ occurrence["dc1"] = "otherGroup" /\ ~dynamicDatabaseFetchers["dc1"].present
    /\ occurrence["dc2"] = "group" /\ dynamicDatabaseFetchers["dc2"] = Entry(<<>>)
    /\ lastEvent.type = "put" /\ lastEvent.resource.name = "dc1"

====
